---- MODULE Spec2Model ----
(***************************************************************************)
(* The review lifecycle of the feedback platform's backend: the request    *)
(* handlers of backend/src/controllers/reviewController.js over the Review *)
(* collection (schema in backend/src/routes/analyticsRoutes.js), the User  *)
(* counters and the background enrichment processReviewWithAI.             *)
(*                                                                         *)
(* Every handler is an async function; each `await` of a database call is  *)
(* a point where other requests and enrichment runs interleave, so a       *)
(* handler is one action per awaited database operation.  Code that runs   *)
(* between a database call's completion and the next database call (the    *)
(* in-memory assignments, the synchronous start of processReviewWithAI,    *)
(* the populate of the author's name and the response) belongs to the      *)
(* action of the database call it follows.                                 *)
(*                                                                         *)
(* Text (productName, title, content) is a sequence of tokens, a token     *)
(* being a word or the blank " ".  Scores are kept in tenths.              *)
(***************************************************************************)
EXTENDS Integers, Sequences, FiniteSets, TLC

\* ---------------------------------------------------------------- bounds
\* HTTP requests started in one behaviour.
MaxRequests == 3
\* Review documents created in one behaviour (ids are never reused).
MaxReviews == 2

\* Requests being handled at the same time, and enrichment runs in flight.
Slots == {1, 2}
RunSlots == {1, 2}

\* ------------------------------------------------------------ the actors
Customers == {"u1", "u2"}
Admins == {"adm"}
UserIds == Customers \cup Admins

Role(u) == IF u \in Admins THEN "admin" ELSE "user"

\* User.reputation before any moderation or vote.
InitialReputation == 100

\* ------------------------------------------------------------------ text
None == <<>>

\* JavaScript truthiness of an optional text and of an optional number
\* (undefined is None for a text and 0 for a number).
TruthyText(s) == s # None
TruthyNum(n) == n # 0

RECURSIVE TrimStart(_)
TrimStart(s) == IF s # <<>> /\ Head(s) = " " THEN TrimStart(Tail(s)) ELSE s

RECURSIVE TrimEnd(_)
TrimEnd(s) ==
    IF s # <<>> /\ s[Len(s)] = " " THEN TrimEnd(SubSeq(s, 1, Len(s) - 1)) ELSE s

\* String.prototype.trim
Trim(s) == TrimEnd(TrimStart(s))

Range(s) == {s[i] : i \in DOMAIN s}

\* The number of characters of a token, and String.prototype.length.
TokenLength(w) ==
    CASE w = " " -> 1
      [] w = "p" -> 1
      [] w = "q" -> 1
      [] w = "fine" -> 4
      [] w = "great" -> 5
      [] w = "terrible" -> 8
      [] w = "item" -> 4
      [] w = "good" -> 4
      [] w = "excellent" -> 9
      [] w = "amazing" -> 7
      [] w = "love" -> 4
      [] w = "perfect" -> 7
      [] w = "recommend" -> 9
      [] w = "awesome" -> 7
      [] w = "fantastic" -> 9
      [] w = "wonderful" -> 9
      [] w = "bad" -> 3
      [] w = "awful" -> 5
      [] w = "hate" -> 4
      [] w = "worst" -> 5
      [] w = "horrible" -> 8
      [] w = "disappointing" -> 13
      [] w = "useless" -> 7
      [] w = "broken" -> 6
      [] w = "waste" -> 5
      [] OTHER -> 1

RECURSIVE Length(_)
Length(s) == IF s = <<>> THEN 0 ELSE TokenLength(Head(s)) + Length(Tail(s))

\* The texts requests carry.  " p" and "p" are the same product once trimmed;
\* " " is empty once trimmed and fails validation.
RawNames == {<<"p">>, <<" ", "p">>, <<"q">>, <<" ">>}
Titles == {<<"fine">>}
Contents == {<<"terrible", " ", "item">>}
Ratings == {2}

\* ---------------------------------------------------------- content hash
\* Date.prototype.toISOString of a creation time.
ToISOString(t) == <<"iso", t>>

\* BlockchainService.generateHash: "0x" + sha256 of the JSON of the data with
\* its keys in sorted order (content, rating, timestamp, title, userId).  The
\* digest is kept as the serialised fields themselves: equal digests, equal
\* input.
GenerateHash(data) ==
    <<"0x", data.content, data.rating, data.timestamp, data.title, data.userId>>

\* The hash input processReviewWithAI builds from a review document.
HashInput(review) ==
    [title |-> review.title, content |-> review.content,
     rating |-> review.rating, timestamp |-> ToISOString(review.createdAt),
     userId |-> review.user]

\* ------------------------------------------------------ heuristic analyzer
PositiveWords ==
    {"good", "great", "excellent", "amazing", "love", "perfect", "recommend",
     "awesome", "fantastic", "wonderful"}
NegativeWords ==
    {"bad", "terrible", "awful", "hate", "worst", "horrible", "disappointing",
     "useless", "broken", "waste"}

Max(a, b) == IF a >= b THEN a ELSE b
Min(a, b) == IF a <= b THEN a ELSE b

\* A rule that looks at a low rating before it looks at the keywords.
FallbackAnalysis_RatingFirst(review) ==
    LET text == review.title \o <<" ">> \o review.content
        positiveCount == Cardinality(PositiveWords \cap Range(text))
        negativeCount == Cardinality(NegativeWords \cap Range(text))
        sentiment ==
            IF review.rating <= 2 THEN "negative"
            ELSE IF review.rating >= 4 \/ positiveCount > negativeCount THEN "positive"
            ELSE IF negativeCount > positiveCount THEN "negative"
            ELSE "neutral"
        score ==
            IF sentiment = "positive"
            THEN 3 + (review.rating - 3) * 2 + positiveCount
            ELSE IF sentiment = "negative"
            THEN 0 - 3 - (3 - review.rating) * 2 - negativeCount
            ELSE review.rating - 3
        words == Cardinality({i \in DOMAIN review.content : review.content[i] = " "}) + 1
    IN  [sentiment |-> sentiment,
         score |-> Max(-10, Min(10, score)),
         isFake |-> (Length(review.content) < 20 \/ words < 10),
         fakeConfidence |-> IF Length(review.content) < 20 THEN 8 ELSE 2,
         provider |-> "fallback"]

\* AIService.fallbackAnalysis; score and fakeConfidence in tenths.
FallbackAnalysis(review) ==
    LET text == review.title \o <<" ">> \o review.content
        positiveCount == Cardinality(PositiveWords \cap Range(text))
        negativeCount == Cardinality(NegativeWords \cap Range(text))
        sentiment ==
            IF review.rating >= 4 \/ positiveCount > negativeCount THEN "positive"
            ELSE IF review.rating <= 2 \/ negativeCount > positiveCount THEN "negative"
            ELSE "neutral"
        score ==
            IF sentiment = "positive"
            THEN 3 + (review.rating - 3) * 2 + positiveCount
            ELSE IF sentiment = "negative"
            THEN 0 - 3 - (3 - review.rating) * 2 - negativeCount
            ELSE review.rating - 3
        words == Cardinality({i \in DOMAIN review.content : review.content[i] = " "}) + 1
    IN  [sentiment |-> sentiment,
         score |-> Max(-10, Min(10, score)),
         isFake |-> (Length(review.content) < 20 \/ words < 10),
         fakeConfidence |-> IF Length(review.content) < 20 THEN 8 ELSE 2,
         provider |-> "fallback"]

\* AIService.analyzeSentiment with no OpenAI key configured (openai is null):
\* the rule-based analysis.
AnalyzeSentiment(review) == FallbackAnalysis(review)

\* ------------------------------------------------------------- documents
Null == "null"

Ids == 1..MaxReviews

\* A schema whose status defaults to approved.
NewReview_Approved(data, now) ==
    [user |-> data.user, productName |-> data.productName, title |-> data.title,
     content |-> data.content, rating |-> data.rating,
     status |-> "approved",
     sentiment |-> "neutral", sentimentScore |-> 0,
     isFake |-> FALSE, fakeConfidence |-> 0, aiProvider |-> "fallback",
     blockchainHash |-> <<>>, blockchainVerified |-> FALSE,
     helpful |-> 0, helpfulUsers |-> <<>>, views |-> 0,
     reportCount |-> 0, reportedBy |-> <<>>,
     moderatedBy |-> Null, moderatedAt |-> Null,
     createdAt |-> now]

\* Review.create: the schema's defaults around the submitted data.
NewReview(data, now) ==
    [user |-> data.user, productName |-> data.productName, title |-> data.title,
     content |-> data.content, rating |-> data.rating,
     status |-> "pending",
     sentiment |-> "neutral", sentimentScore |-> 0,
     isFake |-> FALSE, fakeConfidence |-> 0, aiProvider |-> "fallback",
     blockchainHash |-> <<>>, blockchainVerified |-> FALSE,
     helpful |-> 0, helpfulUsers |-> <<>>, views |-> 0,
     reportCount |-> 0, reportedBy |-> <<>>,
     moderatedBy |-> Null, moderatedAt |-> Null,
     createdAt |-> now]

\* Document.prototype.set: a path is marked modified only when the value
\* assigned differs from the one the document holds.
Assign(doc, mod, path, val) ==
    [doc |-> [doc EXCEPT ![path] = val],
     mod |-> IF doc[path] = val THEN mod ELSE mod \cup {path}]

\* The schema's pre('save') hook.
PreSave(doc, mod) ==
    IF "status" \in mod /\ doc.status # "pending"
    THEN [doc |-> [doc EXCEPT !.moderatedAt = "date"], mod |-> mod \cup {"moderatedAt"}]
    ELSE [doc |-> doc, mod |-> mod]

\* A save that writes the whole loaded document back over the stored one.
SaveUpdate_WholeDocument(stored, doc, mod, push) ==
    LET h == PreSave(doc, mod)
    IN  [f \in DOMAIN stored |->
            IF f = "helpfulUsers" THEN stored.helpfulUsers \o push
            ELSE h.doc[f]]

\* Document.prototype.save on an existing document: one update that $sets the
\* modified paths and $pushes what was pushed onto helpfulUsers; the paths
\* that were not modified keep what the collection holds.
SaveUpdate(stored, doc, mod, push) ==
    LET h == PreSave(doc, mod)
    IN  [f \in DOMAIN stored |->
            IF f = "helpfulUsers" THEN stored.helpfulUsers \o push
            ELSE IF f \in h.mod THEN h.doc[f]
            ELSE stored[f]]

\* ----------------------------------------------------------------- state
VARIABLES
    reviews,     \* the Review collection: id -> document
    users,       \* the User collection: id -> [reputation, reviewCount]
    nextId,      \* the next review id, also the clock of createdAt
    reqs,        \* the requests being handled: slot -> request
    runs,        \* the processReviewWithAI runs in flight: slot -> run
    started,     \* requests started so far
    lastResp,    \* the response sent last
    expected,    \* history: user -> reputation owed by transitions and votes
    failed,      \* history: the reviews an enrichment run of which threw
    api,         \* the browser's ApiService: the request call in progress
    ctx,         \* the browser's DataProvider, with the DatabaseService it uses
    ws,          \* the browser's WebSocketService, with its sockets and timers
    heur,        \* the rule-based analysis of one review, by server and browser
    auth,        \* the browser's AuthProvider: user, stored token, call in progress
    ledger       \* the browser's BlockchainService and the reviews hashed with it

\* The state of the backend, and that of the browser client.
backend == <<reviews, users, nextId, reqs, runs, started, lastResp, expected, failed>>
client == <<api, ctx, ws, heur, auth, ledger>>
exceptApi == <<backend, ctx, ws, heur, auth, ledger>>
exceptCtx == <<backend, api, ws, heur, auth, ledger>>
exceptWs == <<backend, api, ctx, heur, auth, ledger>>
exceptHeur == <<backend, api, ctx, ws, auth, ledger>>
exceptAuth == <<backend, api, ctx, ws, heur, ledger>>
exceptLedger == <<backend, api, ctx, ws, heur, auth>>

vars == <<backend, client>>

IdleReq == [pc |-> "idle"]
IdleRun == [pc |-> "idle"]
IdleApi == [pc |-> "idle", calls |-> 0]

\* The review list the DataProvider starts with (mockReviews): id -> status.
mockReviews == [i \in {1, 2, 3} |-> IF i = 3 THEN "pending" ELSE "approved"]

\* The WebSocketService as constructed.  cur is the socket `this.ws` refers
\* to; the det* fields count the sockets the service created and no longer
\* refers to (replaced by a later connect, or closed and dropped by
\* disconnect) that have not fired their close event yet.  intervals counts
\* the heartbeat intervals running, heartbeatTimer tells whether the service
\* holds the handle of one.  halfOpen and wire belong to the network: the
\* peer of the current socket is gone without a close event, and a heartbeat
\* is on its way.
NewWs ==
    [cur |-> "none", detConnecting |-> 0, detOpen |-> 0, detClosing |-> 0,
     isConnected |-> FALSE, shouldReconnect |-> TRUE, reconnectAttempts |-> 0,
     reconnectTimer |-> "null", timerDelay |-> 0,
     heartbeatTimer |-> FALSE, intervals |-> 0,
     halfOpen |-> FALSE, wire |-> 0, connects |-> 0]

\* The `reviews` state of the DataProvider: a list, or undefined (what
\* `setReviews(response.data.reviews)` leaves when the body has no `reviews`).
ListOf(items) == [defined |-> TRUE, items |-> items]
Undefined == [defined |-> FALSE, items |-> [i \in {} |-> "pending"]]

\* The DataProvider before any call: the list is mockReviews, localStorage
\* holds no review, the DatabaseService is not connected.
IdleCtx ==
    [pc |-> "idle", op |-> "none", after |-> "none", calls |-> 0,
     list |-> ListOf(mockReviews), before |-> ListOf(mockReviews), notes |-> <<>>,
     stored |-> [i \in {} |-> "pending"], isConnected |-> FALSE,
     clock |-> 4, rid |-> 0, status |-> "none",
     dbTier |-> "none", apiTier |-> "none", served |-> "none"]

\* No review has been analysed yet.
IdleHeur == [pc |-> "idle"]

\* The AuthProvider as mounted with no stored token: no user, and no call of
\* login or register in progress.
NoUser == [email |-> "", role |-> "none"]
IdleAuth ==
    [pc |-> "idle", user |-> NoUser, token |-> Null, result |-> "none", calls |-> 0,
     email |-> "", password |-> "", isRegister |-> FALSE]

\* The BlockchainService with an empty localStorage, and no review added.
IdleLedger == [transactions |-> <<>>, stored |-> <<>>, verified |-> <<>>]

NoDoc == [none |-> TRUE]
NoResp == [op |-> "none", user |-> Null, rid |-> 0, arg |-> None, code |-> 0, doc |-> NoDoc]

Init ==
    /\ reviews = [i \in {} |-> NoDoc]
    /\ users = [u \in UserIds |-> [reputation |-> InitialReputation, reviewCount |-> 0]]
    /\ nextId = 1
    /\ reqs = [q \in Slots |-> IdleReq]
    /\ runs = [r \in RunSlots |-> IdleRun]
    /\ started = 0
    /\ lastResp = NoResp
    /\ expected = [u \in UserIds |-> InitialReputation]
    /\ failed = {}
    /\ api = IdleApi
    /\ ctx = IdleCtx
    /\ ws = NewWs
    /\ heur = IdleHeur
    /\ auth = IdleAuth
    /\ ledger = IdleLedger

Exists(rid) == rid \in DOMAIN reviews

Idle(q) == reqs[q].pc = "idle"

FreeRun == {r \in RunSlots : runs[r].pc = "idle"}

\* A request may start in slot q: the slot is free and, so that equal states
\* are not told apart by the slot, it is the lowest free one.
CanStart(q) ==
    /\ Idle(q)
    /\ \A p \in Slots : p < q => ~Idle(p)
    /\ started < MaxRequests

\* A response: the request it answers (operation, caller, review id and, for
\* createReview, the product name as submitted), the status code and the
\* review document of the body.
Respond(q, op, code, doc) ==
    /\ lastResp' = [op |-> op, user |-> reqs[q].user, rid |-> reqs[q].rid,
                    arg |-> reqs[q].arg, code |-> code, doc |-> doc]
    /\ reqs' = [reqs EXCEPT ![q] = IdleReq]

\* The response of a request that ends in the step that starts it.
Reject(op, u, rid, arg, code) ==
    /\ lastResp' = [op |-> op, user |-> u, rid |-> rid, arg |-> arg,
                    code |-> code, doc |-> NoDoc]
    /\ UNCHANGED reqs

\* processReviewWithAI(reviewId), called without await: the run is started
\* and its first query is pending.
StartRun(rid, first) ==
    LET r == CHOOSE x \in FreeRun : \A y \in FreeRun : x <= y
    IN  runs' = [runs EXCEPT ![r] = [pc |-> "find", rid |-> rid, first |-> first]]

\* ----------------------------------------------------------- createReview
\* The sanitizers of the validation chains: .trim() on the texts given.
Sanitized(body) ==
    [productName |-> Trim(body.productName), title |-> Trim(body.title),
     content |-> Trim(body.content), rating |-> body.rating]

\* createReviewValidation on the sanitized body.
ValidCreate(body) ==
    /\ Length(body.productName) \in 1..200
    /\ Length(body.title) \in 1..200
    /\ Length(body.content) \in 10..2000
    /\ body.rating \in 1..5

\* A findOne that looks among the approved reviews only.
ExistingReview_ApprovedOnly(u, productName) ==
    {i \in DOMAIN reviews :
        /\ reviews[i].user = u
        /\ reviews[i].productName = Trim(productName)
        /\ reviews[i].status = "approved"}

\* Review.findOne({user: req.user.id, productName: productName.trim()})
ExistingReview(u, productName) ==
    {i \in DOMAIN reviews :
        reviews[i].user = u /\ reviews[i].productName = Trim(productName)}

\* The request arrives; validation, then the findOne for an earlier review.
CreateReviewFind(q, u, raw) ==
    /\ CanStart(q)
    /\ started' = started + 1
    /\ LET body == Sanitized(raw)
       IN  IF ~ValidCreate(body)
           THEN Reject("createReview", u, 0, raw.productName, 400)
           ELSE IF ExistingReview(u, body.productName) # {}
           THEN Reject("createReview", u, 0, raw.productName, 400)
           ELSE /\ reqs' = [reqs EXCEPT ![q] =
                       [pc |-> "create", op |-> "createReview", user |-> u, rid |-> 0,
                        arg |-> raw.productName,
                        data |-> [user |-> u,
                                  productName |-> Trim(body.productName),
                                  title |-> Trim(body.title),
                                  content |-> Trim(body.content),
                                  rating |-> body.rating]]]
                /\ UNCHANGED lastResp
    /\ UNCHANGED <<reviews, users, nextId, runs, expected, failed>>
    /\ UNCHANGED client

\* Review.create, then processReviewWithAI(review._id) is started.
CreateReviewCreate(q) ==
    /\ reqs[q].pc = "create"
    /\ nextId <= MaxReviews
    /\ FreeRun # {}
    /\ LET doc == NewReview(reqs[q].data, nextId)
       IN  /\ reviews' = [i \in DOMAIN reviews \cup {nextId} |->
                            IF i = nextId THEN doc ELSE reviews[i]]
           /\ reqs' = [reqs EXCEPT ![q] =
                   [pc |-> "count", op |-> "createReview", user |-> reqs[q].user,
                    rid |-> nextId, arg |-> reqs[q].arg, doc |-> doc]]
    /\ StartRun(nextId, TRUE)
    /\ nextId' = nextId + 1
    /\ UNCHANGED <<users, started, lastResp, expected, failed>>
    /\ UNCHANGED client

\* A response built from the document as the collection holds it now.
CreatedBody_ReadBack(q) ==
    IF Exists(reqs[q].rid) THEN reviews[reqs[q].rid] ELSE reqs[q].doc

\* `data: { review }` of the 201: the document Review.create returned.
CreatedBody(q) == reqs[q].doc

\* User.findByIdAndUpdate($inc reviewCount), the populate and the 201.
CreateReviewCount(q) ==
    /\ reqs[q].pc = "count"
    /\ reqs[q].op = "createReview"
    /\ users' = [users EXCEPT ![reqs[q].user].reviewCount = @ + 1]
    /\ Respond(q, "createReview", 201, CreatedBody(q))
    /\ UNCHANGED <<reviews, nextId, runs, started, expected, failed>>
    /\ UNCHANGED client

\* ----------------------------------------------------------- updateReview
\* updateReviewValidation: every field is optional.
ValidUpdate(body) ==
    /\ TruthyText(body.productName) => Length(body.productName) \in 1..200
    /\ TruthyText(body.title) => Length(body.title) \in 1..200
    /\ TruthyText(body.content) => Length(body.content) \in 10..2000
    /\ TruthyNum(body.rating) => body.rating \in 1..5

\* `content || title || rating` of updateReview.
ContentChanged(body) ==
    TruthyText(body.content) \/ TruthyText(body.title) \/ TruthyNum(body.rating)

\* The ownership check shared by updateReview and deleteReview.
MayModify(review, u) == review.user = u \/ Role(u) = "admin"

\* `review.status !== 'pending' && req.user.role !== 'admin'`
EditLocked(review, u) == review.status # "pending" /\ Role(u) # "admin"

\* The assignments updateReview makes to the document it loaded.
UpdateAssignments(review, body) ==
    LET a0 == [doc |-> review, mod |-> {}]
        a1 == IF TruthyText(body.productName)
              THEN Assign(a0.doc, a0.mod, "productName", Trim(body.productName))
              ELSE a0
        a2 == IF TruthyText(body.title)
              THEN Assign(a1.doc, a1.mod, "title", Trim(body.title))
              ELSE a1
        a3 == IF TruthyText(body.content)
              THEN Assign(a2.doc, a2.mod, "content", Trim(body.content))
              ELSE a2
        a4 == IF TruthyNum(body.rating)
              THEN Assign(a3.doc, a3.mod, "rating", body.rating)
              ELSE a3
        a5 == Assign(a4.doc, a4.mod, "status", "pending")
        a6 == Assign(a5.doc, a5.mod, "moderatedAt", Null)
        a7 == Assign(a6.doc, a6.mod, "moderatedBy", Null)
    IN  IF ContentChanged(body) THEN a7 ELSE a4

\* The request arrives; validation, Review.findById, the checks and the
\* assignments to the loaded document.
UpdateReviewFind(q, u, rid, raw) ==
    /\ CanStart(q)
    /\ started' = started + 1
    /\ LET body == Sanitized(raw) IN
       IF ~ValidUpdate(body) THEN Reject("updateReview", u, rid, None, 400)
       ELSE IF ~Exists(rid) THEN Reject("updateReview", u, rid, None, 404)
       ELSE IF ~MayModify(reviews[rid], u) THEN Reject("updateReview", u, rid, None, 403)
       ELSE IF EditLocked(reviews[rid], u) THEN Reject("updateReview", u, rid, None, 400)
       ELSE LET a == UpdateAssignments(reviews[rid], body)
            IN  /\ reqs' = [reqs EXCEPT ![q] =
                       [pc |-> "save", op |-> "updateReview", user |-> u, rid |-> rid,
                        arg |-> None, doc |-> a.doc, mod |-> a.mod,
                        changed |-> ContentChanged(body)]]
                /\ UNCHANGED lastResp
    /\ UNCHANGED <<reviews, users, nextId, runs, expected, failed>>
    /\ UNCHANGED client

\* review.save() (no query when nothing was modified; DocumentNotFoundError,
\* hence the 500, when the document is gone), then the enrichment is started
\* again if the content changed, the populate and the response.
UpdateReviewSave(q) ==
    /\ reqs[q].pc = "save"
    /\ reqs[q].op = "updateReview"
    /\ LET rid == reqs[q].rid
       IN  IF reqs[q].mod # {} /\ ~Exists(rid)
           THEN /\ Respond(q, "updateReview", 500, NoDoc)
                /\ UNCHANGED <<reviews, runs>>
           ELSE /\ reqs[q].changed => FreeRun # {}
                /\ reviews' = IF reqs[q].mod = {} THEN reviews
                              ELSE [reviews EXCEPT ![rid] =
                                       SaveUpdate(@, reqs[q].doc, reqs[q].mod, <<>>)]
                /\ IF reqs[q].changed THEN StartRun(rid, FALSE) ELSE UNCHANGED runs
                /\ Respond(q, "updateReview", 200, reqs[q].doc)
    /\ UNCHANGED <<users, nextId, started, expected, failed>>
    /\ UNCHANGED client

\* ----------------------------------------------------------- deleteReview
DeleteReviewFind(q, u, rid) ==
    /\ CanStart(q)
    /\ started' = started + 1
    /\ IF ~Exists(rid) THEN Reject("deleteReview", u, rid, None, 404)
       ELSE IF ~MayModify(reviews[rid], u) THEN Reject("deleteReview", u, rid, None, 403)
       ELSE /\ reqs' = [reqs EXCEPT ![q] =
                   [pc |-> "delete", op |-> "deleteReview", user |-> u, rid |-> rid,
                    arg |-> None, doc |-> reviews[rid]]]
            /\ UNCHANGED lastResp
    /\ UNCHANGED <<reviews, users, nextId, runs, expected, failed>>
    /\ UNCHANGED client

\* Review.findByIdAndDelete
DeleteReviewDelete(q) ==
    /\ reqs[q].pc = "delete"
    /\ reviews' = [i \in DOMAIN reviews \ {reqs[q].rid} |-> reviews[i]]
    /\ reqs' = [reqs EXCEPT ![q].pc = "count"]
    /\ UNCHANGED <<users, nextId, runs, started, lastResp, expected, failed>>
    /\ UNCHANGED client

\* User.findByIdAndUpdate($inc reviewCount: -1) and the response.
DeleteReviewCount(q) ==
    /\ reqs[q].pc = "count"
    /\ reqs[q].op = "deleteReview"
    /\ users' = [users EXCEPT ![reqs[q].doc.user].reviewCount = @ - 1]
    /\ Respond(q, "deleteReview", 200, NoDoc)
    /\ UNCHANGED <<reviews, nextId, runs, started, expected, failed>>
    /\ UNCHANGED client

\* ----------------------------------------------------- updateReviewStatus
\* `status === 'approved' ? 10 : -5`
ReputationChange(status) == IF status = "approved" THEN 10 ELSE 0 - 5

\* The reputation a change of a review's stored status earns its author.
TransitionCredit(old, new) ==
    IF old = new THEN 0
    ELSE IF new = "approved" THEN 10
    ELSE IF new = "rejected" THEN 0 - 5
    ELSE 0

\* The assignments updateReviewStatus makes to the document it loaded;
\* new Date() differs from any date the document holds.
StatusAssignments(review, u, status) ==
    LET a1 == Assign(review, {}, "status", status)
        a2 == Assign(a1.doc, a1.mod, "moderatedBy", u)
    IN  [doc |-> [a2.doc EXCEPT !.moderatedAt = "date"],
         mod |-> a2.mod \cup {"moderatedAt"}]

\* The request of an admin (the route authorizes no one else) arrives;
\* Review.findById and the assignments.
UpdateStatusFind(q, u, rid, status) ==
    /\ CanStart(q)
    /\ started' = started + 1
    /\ IF ~Exists(rid) THEN Reject("updateReviewStatus", u, rid, None, 404)
       ELSE LET a == StatusAssignments(reviews[rid], u, status)
            IN  /\ reqs' = [reqs EXCEPT ![q] =
                       [pc |-> "save", op |-> "updateReviewStatus", user |-> u,
                        rid |-> rid, arg |-> None, doc |-> a.doc, mod |-> a.mod,
                        status |-> status]]
                /\ UNCHANGED lastResp
    /\ UNCHANGED <<reviews, users, nextId, runs, expected, failed>>
    /\ UNCHANGED client

\* review.save()
UpdateStatusSave(q) ==
    /\ reqs[q].pc = "save"
    /\ reqs[q].op = "updateReviewStatus"
    /\ LET rid == reqs[q].rid
       IN  IF ~Exists(rid)
           THEN /\ Respond(q, "updateReviewStatus", 500, NoDoc)
                /\ UNCHANGED <<reviews, expected>>
           ELSE LET new == SaveUpdate(reviews[rid], reqs[q].doc, reqs[q].mod, <<>>)
                IN  /\ reviews' = [reviews EXCEPT ![rid] = new]
                    /\ expected' = [expected EXCEPT ![new.user] =
                           @ + TransitionCredit(reviews[rid].status, new.status)]
                    /\ reqs' = [reqs EXCEPT ![q].pc = "reputation"]
                    /\ UNCHANGED lastResp
    /\ UNCHANGED <<users, nextId, runs, started, failed>>
    /\ UNCHANGED client

\* User.findByIdAndUpdate($inc reputation), the populate and the response.
UpdateStatusReputation(q) ==
    /\ reqs[q].pc = "reputation"
    /\ reqs[q].op = "updateReviewStatus"
    /\ users' = [users EXCEPT ![reqs[q].doc.user].reputation =
                    @ + ReputationChange(reqs[q].status)]
    /\ Respond(q, "updateReviewStatus", 200, reqs[q].doc)
    /\ UNCHANGED <<reviews, nextId, runs, started, expected, failed>>
    /\ UNCHANGED client

\* ------------------------------------------------------------ markHelpful
\* An includes that never matches (an id compared with a value of another type).
AlreadyHelpful_NeverMatches(review, u) == FALSE

\* `review.helpfulUsers.includes(req.user.id)`
AlreadyHelpful(review, u) == u \in Range(review.helpfulUsers)

\* reviewSchema.methods.markHelpful on the loaded document, up to its save.
HelpfulAssignments(review, u) ==
    IF ~AlreadyHelpful(review, u)
    THEN [doc |-> [review EXCEPT !.helpfulUsers = Append(@, u), !.helpful = @ + 1],
          mod |-> {"helpful"}, push |-> <<u>>]
    ELSE [doc |-> review, mod |-> {}, push |-> <<>>]

\* The request arrives; Review.findById, the check and the method's changes.
MarkHelpfulFind(q, u, rid) ==
    /\ CanStart(q)
    /\ started' = started + 1
    /\ IF ~Exists(rid) THEN Reject("markHelpful", u, rid, None, 404)
       ELSE IF AlreadyHelpful(reviews[rid], u) THEN Reject("markHelpful", u, rid, None, 400)
       ELSE LET a == HelpfulAssignments(reviews[rid], u)
            IN  /\ reqs' = [reqs EXCEPT ![q] =
                       [pc |-> "save", op |-> "markHelpful", user |-> u, rid |-> rid,
                        arg |-> None, doc |-> a.doc, mod |-> a.mod, push |-> a.push]]
                /\ UNCHANGED lastResp
    /\ UNCHANGED <<reviews, users, nextId, runs, expected, failed>>
    /\ UNCHANGED client

\* this.save() of the method.
MarkHelpfulSave(q) ==
    /\ reqs[q].pc = "save"
    /\ reqs[q].op = "markHelpful"
    /\ LET rid == reqs[q].rid
       IN  IF ~Exists(rid)
           THEN /\ Respond(q, "markHelpful", 500, NoDoc)
                /\ UNCHANGED <<reviews, expected>>
           ELSE /\ reviews' = [reviews EXCEPT ![rid] =
                       SaveUpdate(@, reqs[q].doc, reqs[q].mod, reqs[q].push)]
                /\ expected' = [expected EXCEPT ![reviews[rid].user] = @ + 2]
                /\ reqs' = [reqs EXCEPT ![q].pc = "reputation"]
                /\ UNCHANGED lastResp
    /\ UNCHANGED <<users, nextId, runs, started, failed>>
    /\ UNCHANGED client

\* User.findByIdAndUpdate($inc reputation: 2) and the response.
MarkHelpfulReputation(q) ==
    /\ reqs[q].pc = "reputation"
    /\ reqs[q].op = "markHelpful"
    /\ users' = [users EXCEPT ![reqs[q].doc.user].reputation = @ + 2]
    /\ Respond(q, "markHelpful", 200, reqs[q].doc)
    /\ UNCHANGED <<reviews, nextId, runs, started, expected, failed>>
    /\ UNCHANGED client

\* ----------------------------------------------------- processReviewWithAI
\* Review.findById; the analysis and the hash are computed from what it read.
EnrichFind(r) ==
    /\ runs[r].pc = "find"
    /\ IF Exists(runs[r].rid)
       THEN LET review == reviews[runs[r].rid]
            IN  runs' = [runs EXCEPT ![r] =
                    [pc |-> "write", rid |-> runs[r].rid, first |-> runs[r].first,
                     aiAnalysis |-> AnalyzeSentiment(review),
                     blockchainHash |-> GenerateHash(HashInput(review))]]
       ELSE runs' = [runs EXCEPT ![r] = IdleRun]
    /\ UNCHANGED <<reviews, users, nextId, reqs, started, lastResp, expected, failed>>
    /\ UNCHANGED client

\* Review.findByIdAndUpdate with the results: it sets these fields and no other.
EnrichWrite(r) ==
    /\ runs[r].pc = "write"
    /\ LET rid == runs[r].rid
           a == runs[r].aiAnalysis
       IN  IF Exists(rid)
           THEN reviews' = [reviews EXCEPT ![rid] =
                    [@ EXCEPT !.sentiment = a.sentiment,
                              !.sentimentScore = a.score,
                              !.isFake = a.isFake,
                              !.fakeConfidence = a.fakeConfidence,
                              !.aiProvider = a.provider,
                              !.blockchainHash = runs[r].blockchainHash,
                              !.blockchainVerified = TRUE]]
           ELSE UNCHANGED reviews
    /\ runs' = [runs EXCEPT ![r] = IdleRun]
    /\ UNCHANGED <<users, nextId, reqs, started, lastResp, expected, failed>>
    /\ UNCHANGED client

\* A query of the run throws (the database is unreachable): the catch block
\* logs the error and the run is over.
EnrichFail(r) ==
    /\ runs[r].pc \in {"find", "write"}
    /\ runs' = [runs EXCEPT ![r] = IdleRun]
    /\ failed' = failed \cup {runs[r].rid}
    /\ UNCHANGED <<reviews, users, nextId, reqs, started, lastResp, expected>>
    /\ UNCHANGED client

\* ------------------------------------------------------------------ system
CreateBodies ==
    [productName : RawNames, title : Titles, content : Contents, rating : Ratings]

\* The bodies of updateReview: a new product name, a new title, a new rating.
UpdateBodies ==
    {[productName |-> <<"p">>, title |-> None, content |-> None, rating |-> 0],
     [productName |-> None, title |-> <<"great">>, content |-> None, rating |-> 0],
     [productName |-> None, title |-> None, content |-> None, rating |-> 5]}

Statuses == {"approved", "rejected"}

Begin(q) ==
    \/ \E u \in Customers, body \in CreateBodies : CreateReviewFind(q, u, body)
    \/ \E u \in UserIds, rid \in Ids, body \in UpdateBodies : UpdateReviewFind(q, u, rid, body)
    \/ \E u \in UserIds, rid \in Ids : DeleteReviewFind(q, u, rid)
    \/ \E u \in Admins, rid \in Ids, status \in Statuses : UpdateStatusFind(q, u, rid, status)
    \/ \E u \in UserIds, rid \in Ids : MarkHelpfulFind(q, u, rid)

Step(q) ==
    \/ CreateReviewCreate(q)
    \/ CreateReviewCount(q)
    \/ UpdateReviewSave(q)
    \/ DeleteReviewDelete(q)
    \/ DeleteReviewCount(q)
    \/ UpdateStatusSave(q)
    \/ UpdateStatusReputation(q)
    \/ MarkHelpfulSave(q)
    \/ MarkHelpfulReputation(q)

Enrich(r) ==
    \/ EnrichFind(r)
    \/ EnrichWrite(r)
    \/ EnrichFail(r)

Next ==
    \/ \E q \in Slots : Begin(q)
    \/ \E q \in Slots : Step(q)
    \/ \E r \in RunSlots : Enrich(r)

Spec == Init /\ [][Next]_vars

\* The same system with its requests arriving in sequence: a request starts
\* only when no other is being handled (the enrichment runs, which no
\* request awaits, still interleave).
AllIdle == \A q \in Slots : Idle(q)

NextSeq ==
    \/ \E q \in Slots : AllIdle /\ Begin(q)
    \/ \E q \in Slots : Step(q)
    \/ \E r \in RunSlots : Enrich(r)

SpecSeq == Init /\ [][NextSeq]_vars

\* =================================================================== reads
\* getReview and getReviews, with the requests that change what they may
\* show (updateReviewStatus, deleteReview), over a collection that already
\* holds reviews.

\* Who calls: optionalAuth lets anyone in, with req.user set for a valid token.
Callers == UserIds \cup {Null}

\* A hiding rule that lets rejected reviews through.
Hidden_PendingOnly(review, u) == review.status = "pending" /\ Role(u) # "admin"

\* `review.status !== 'approved' && req.user?.role !== 'admin'`
Hidden(review, u) == review.status # "approved" /\ Role(u) # "admin"

\* The status filter of getReviews: `status = 'approved'` by default, forced
\* to approved for anyone but an admin; "default" is a request without a
\* status, and an admin's empty status filters nothing.
QueryStatus(u, status) ==
    IF Role(u) # "admin" THEN "approved"
    ELSE IF status = "default" THEN "approved"
    ELSE status

Matching(status) ==
    {i \in DOMAIN reviews : status = "" \/ reviews[i].status = status}

\* Review.find(query).sort({createdAt: -1}) with the default page and limit:
\* the matching documents, the newest first.
RECURSIVE Newest(_)
Newest(S) ==
    IF S = {} THEN <<>>
    ELSE LET m == CHOOSE i \in S : \A j \in S : reviews[j].createdAt <= reviews[i].createdAt
         IN  <<reviews[m]>> \o Newest(S \ {m})

\* getReview: Review.findById, the checks and `review.views += 1`.
GetReviewFind(q, u, rid) ==
    /\ CanStart(q)
    /\ started' = started + 1
    /\ IF ~Exists(rid) THEN Reject("getReview", u, rid, None, 404)
       ELSE IF Hidden(reviews[rid], u) THEN Reject("getReview", u, rid, None, 404)
       ELSE LET a == Assign(reviews[rid], {}, "views", reviews[rid].views + 1)
            IN  /\ reqs' = [reqs EXCEPT ![q] =
                       [pc |-> "save", op |-> "getReview", user |-> u, rid |-> rid,
                        arg |-> None, doc |-> a.doc, mod |-> a.mod]]
                /\ UNCHANGED lastResp
    /\ UNCHANGED <<reviews, users, nextId, runs, expected, failed>>
    /\ UNCHANGED client

\* getReview: review.save({validateBeforeSave: false}) and the response.
GetReviewSave(q) ==
    /\ reqs[q].pc = "save"
    /\ reqs[q].op = "getReview"
    /\ LET rid == reqs[q].rid
       IN  IF ~Exists(rid)
           THEN /\ Respond(q, "getReview", 500, NoDoc)
                /\ UNCHANGED reviews
           ELSE /\ reviews' = [reviews EXCEPT ![rid] =
                       SaveUpdate(@, reqs[q].doc, reqs[q].mod, <<>>)]
                /\ Respond(q, "getReview", 200, reqs[q].doc)
    /\ UNCHANGED <<users, nextId, runs, started, expected, failed>>
    /\ UNCHANGED client

\* The first n elements of a sequence and what is left without them.
Take(s, n) == SubSeq(s, 1, IF n < Len(s) THEN n ELSE Len(s))
Drop(s, n) == SubSeq(s, (IF n < Len(s) THEN n ELSE Len(s)) + 1, Len(s))

\* `.limit(options.limit * 1).skip((options.page - 1) * options.limit)` on
\* the sorted matches: the skip is applied first, and a limit of 0 is no
\* limit.
PageOf(sorted, page, limit) ==
    LET rest == Drop(sorted, (page - 1) * limit)
    IN  IF limit = 0 THEN rest ELSE Take(rest, limit)

\* getReviews with `page` and `limit` given: the query is built and
\* Review.find answers, or throws when the skip is negative.
GetReviewsPage(q, u, status, page, limit) ==
    /\ CanStart(q)
    /\ started' = started + 1
    /\ IF (page - 1) * limit < 0
       THEN /\ lastResp' = [op |-> "getReviews", user |-> u, rid |-> 0, arg |-> None,
                            code |-> 500,
                            doc |-> [reviews |-> <<>>, total |-> 0,
                                     page |-> page, limit |-> limit]]
            /\ UNCHANGED reqs
       ELSE /\ reqs' = [reqs EXCEPT ![q] =
                   [pc |-> "count", op |-> "getReviews", user |-> u, rid |-> 0,
                    arg |-> None, query |-> QueryStatus(u, status),
                    page |-> page, limit |-> limit,
                    found |-> PageOf(Newest(Matching(QueryStatus(u, status))),
                                     page, limit)]]
            /\ UNCHANGED lastResp
    /\ UNCHANGED <<reviews, users, nextId, runs, expected, failed>>
    /\ UNCHANGED client

\* getReviews without `page` and `limit`: `page = 1, limit = 10`.
GetReviewsFind(q, u, status) == GetReviewsPage(q, u, status, 1, 10)

\* getReviews: Review.countDocuments answers, and the response.
GetReviewsCount(q) ==
    /\ reqs[q].pc = "count"
    /\ reqs[q].op = "getReviews"
    /\ Respond(q, "getReviews", 200,
               [reviews |-> reqs[q].found,
                total |-> Cardinality(Matching(reqs[q].query)),
                page |-> reqs[q].page, limit |-> reqs[q].limit])
    /\ UNCHANGED <<reviews, users, nextId, runs, started, expected, failed>>
    /\ UNCHANGED client

\* A stored review that has been moderated to the status (or not yet).
StoredReview(id, u, status) ==
    [NewReview([user |-> u, productName |-> <<"p">>, title |-> <<"fine">>,
                content |-> <<"terrible", " ", "item">>, rating |-> 2], id)
        EXCEPT !.status = status,
               !.moderatedBy = IF status = "pending" THEN Null ELSE "adm",
               !.moderatedAt = IF status = "pending" THEN Null ELSE "date"]

\* What the moderation of the first n reviews has credited to the user.
RECURSIVE Credited(_, _, _, _)
Credited(u, author, status, n) ==
    IF n = 0 THEN 0
    ELSE Credited(u, author, status, n - 1)
         + (IF author[n] = u THEN TransitionCredit("pending", status[n]) ELSE 0)

\* The collection holds MaxReviews reviews, each by a customer (the first by
\* u1) and in any of the three statuses, their authors credited for them; no
\* request is being handled.
InitRead ==
    /\ \E author \in {a \in [Ids -> Customers] : a[1] = "u1"},
          status \in [Ids -> {"pending", "approved", "rejected"}] :
        /\ reviews = [i \in Ids |-> StoredReview(i, author[i], status[i])]
        /\ users = [u \in UserIds |->
              [reputation |-> InitialReputation + Credited(u, author, status, MaxReviews),
               reviewCount |-> Cardinality({i \in Ids : author[i] = u})]]
        /\ expected = [u \in UserIds |-> users[u].reputation]
    /\ nextId = MaxReviews + 1
    /\ reqs = [q \in Slots |-> IdleReq]
    /\ runs = [r \in RunSlots |-> IdleRun]
    /\ started = 0
    /\ lastResp = NoResp
    /\ failed = {}
    /\ api = IdleApi
    /\ ctx = IdleCtx
    /\ ws = NewWs
    /\ heur = IdleHeur
    /\ auth = IdleAuth
    /\ ledger = IdleLedger

ReadStatuses == {"default", "", "pending", "approved", "rejected"}

BeginRead(q) ==
    \/ \E u \in Callers, rid \in Ids : GetReviewFind(q, u, rid)
    \/ \E u \in Callers, status \in ReadStatuses : GetReviewsFind(q, u, status)
    \/ \E u \in Admins, rid \in Ids, status \in Statuses : UpdateStatusFind(q, u, rid, status)
    \/ \E u \in UserIds, rid \in Ids : DeleteReviewFind(q, u, rid)

StepRead(q) ==
    \/ GetReviewSave(q)
    \/ GetReviewsCount(q)
    \/ UpdateStatusSave(q)
    \/ UpdateStatusReputation(q)
    \/ DeleteReviewDelete(q)
    \/ DeleteReviewCount(q)

NextRead ==
    \/ \E q \in Slots : BeginRead(q)
    \/ \E q \in Slots : StepRead(q)

SpecRead == InitRead /\ [][NextRead]_vars

\* --------------------------------------------------------------- pagination
\* getReviews with every page and limit up to these, 0 included.
MaxPage == 3
MaxLimit == 3

\* A caller without a token and an admin: the two ways the query is built.
PageCallers == {Null} \cup Admins

\* The requests come in sequence (they change nothing in the collection).
NextPage ==
    \/ \E q \in Slots, u \in PageCallers, status \in ReadStatuses,
          page \in 0..MaxPage, limit \in 0..MaxLimit :
            AllIdle /\ GetReviewsPage(q, u, status, page, limit)
    \/ \E q \in Slots : GetReviewsCount(q)

SpecPage == InitRead /\ [][NextPage]_vars

\* ============================================================= reportReview
\* POST /api/reviews/:id/report, over a collection that already holds reviews.

\* req.body.reason: absent, or a text.
Reasons == {"", "spam", "fake"}

\* reportValidation: the trimmed reason has 1 to 500 characters.
ValidReport(reason) == reason # ""

\* `review.reportedBy.find(report => report.user.toString() === req.user.id)`
ExistingReport(review, u) ==
    \E i \in DOMAIN review.reportedBy : review.reportedBy[i].user = u

\* reviewSchema.methods.reportReview on the loaded document, up to its save.
ReportAssignments(review, u, reason) ==
    IF ~ExistingReport(review, u)
    THEN LET a == Assign(review, {}, "reportCount", review.reportCount + 1)
         IN  [doc |-> [a.doc EXCEPT !.reportedBy =
                            Append(@, [user |-> u, reason |-> reason])],
              mod |-> a.mod, push |-> <<[user |-> u, reason |-> reason]>>]
    ELSE [doc |-> review, mod |-> {}, push |-> <<>>]

\* this.save() of the method: one update that $sets the modified paths and
\* $pushes what was pushed onto reportedBy.
SaveReport(stored, doc, mod, push) ==
    [f \in DOMAIN stored |->
        IF f = "reportedBy" THEN stored.reportedBy \o push
        ELSE IF f \in mod THEN doc[f]
        ELSE stored[f]]

\* The request arrives; validation, Review.findById, the check and the
\* method's changes.
ReportReviewFind(q, u, rid, reason) ==
    /\ CanStart(q)
    /\ started' = started + 1
    /\ IF ~ValidReport(reason) THEN Reject("reportReview", u, rid, None, 400)
       ELSE IF ~Exists(rid) THEN Reject("reportReview", u, rid, None, 404)
       ELSE IF ExistingReport(reviews[rid], u) THEN Reject("reportReview", u, rid, None, 400)
       ELSE LET a == ReportAssignments(reviews[rid], u, reason)
            IN  /\ reqs' = [reqs EXCEPT ![q] =
                       [pc |-> "save", op |-> "reportReview", user |-> u, rid |-> rid,
                        arg |-> None, doc |-> a.doc, mod |-> a.mod, push |-> a.push]]
                /\ UNCHANGED lastResp
    /\ UNCHANGED <<reviews, users, nextId, runs, expected, failed>>
    /\ UNCHANGED client

\* this.save() answers, and the response.
ReportReviewSave(q) ==
    /\ reqs[q].pc = "save"
    /\ reqs[q].op = "reportReview"
    /\ LET rid == reqs[q].rid
       IN  IF ~Exists(rid)
           THEN /\ Respond(q, "reportReview", 500, NoDoc)
                /\ UNCHANGED reviews
           ELSE /\ reviews' = [reviews EXCEPT ![rid] =
                       SaveReport(@, reqs[q].doc, reqs[q].mod, reqs[q].push)]
                /\ Respond(q, "reportReview", 200, NoDoc)
    /\ UNCHANGED <<users, nextId, runs, started, expected, failed>>
    /\ UNCHANGED client

\* The review ids of the requests: those stored and one that is not.
ReportIds == 1..(MaxReviews + 1)

NextReport ==
    \/ \E q \in Slots, u \in UserIds, rid \in ReportIds, reason \in Reasons :
            ReportReviewFind(q, u, rid, reason)
    \/ \E q \in Slots : ReportReviewSave(q)

SpecReport == InitRead /\ [][NextReport]_vars

\* ================================================== createReview that throws
\* createReview with the database calls it awaits failing: whatever throws
\* inside the try block is answered 500 by the catch block.

\* Review.create throws (the database is unreachable, or the schema refuses
\* the document): nothing was stored.
CreateReviewCreateFail(q) ==
    /\ reqs[q].pc = "create"
    /\ Respond(q, "createReview", 500, NoDoc)
    /\ UNCHANGED <<reviews, users, nextId, runs, started, expected, failed>>
    /\ UNCHANGED client

\* User.findByIdAndUpdate($inc reviewCount) throws, after Review.create.
CreateReviewCountFail(q) ==
    /\ reqs[q].pc = "count"
    /\ reqs[q].op = "createReview"
    /\ Respond(q, "createReview", 500, NoDoc)
    /\ UNCHANGED <<reviews, users, nextId, runs, started, expected, failed>>
    /\ UNCHANGED client

\* review.populate throws, after the $inc of reviewCount.
CreateReviewPopulateFail(q) ==
    /\ reqs[q].pc = "count"
    /\ reqs[q].op = "createReview"
    /\ users' = [users EXCEPT ![reqs[q].user].reviewCount = @ + 1]
    /\ Respond(q, "createReview", 500, NoDoc)
    /\ UNCHANGED <<reviews, nextId, runs, started, expected, failed>>
    /\ UNCHANGED client

NextCreate ==
    \/ \E q \in Slots, u \in Customers, body \in CreateBodies : CreateReviewFind(q, u, body)
    \/ \E q \in Slots : CreateReviewCreate(q)
    \/ \E q \in Slots : CreateReviewCount(q)
    \/ \E q \in Slots : CreateReviewCreateFail(q)
    \/ \E q \in Slots : CreateReviewCountFail(q)
    \/ \E q \in Slots : CreateReviewPopulateFail(q)
    \/ \E r \in RunSlots : Enrich(r)

SpecCreate == Init /\ [][NextCreate]_vars

\* ================================================ enrichment with OpenAI
\* processReviewWithAI with an OpenAI key configured: analyzeSentiment asks
\* the remote analyzer first.

\* What openai.chat.completions.create can end in: it throws (network
\* failure), the message has no content, the content is not JSON, or the
\* content is a JSON object, of the shape asked for or not (score and
\* fakeConfidence in tenths).
RemoteOutcomes ==
    {[kind |-> "throw"], [kind |-> "empty"], [kind |-> "text"]}
    \cup {[kind |-> "json", sentiment |-> "positive", score |-> 5,
           isFake |-> TRUE, fakeConfidence |-> 2],
          [kind |-> "json", sentiment |-> "mixed", score |-> 50,
           isFake |-> TRUE, fakeConfidence |-> 20]}

\* AIService.analyzeSentiment with openai configured: whatever JSON.parse
\* returns is spread into the result; the rule-based analysis after a throw
\* (of the call or of JSON.parse) or an empty content.
AnalyzeSentimentOpenAI(review, o) ==
    IF o.kind = "json"
    THEN [sentiment |-> o.sentiment, score |-> o.score, isFake |-> o.isFake,
          fakeConfidence |-> o.fakeConfidence, provider |-> "openai"]
    ELSE FallbackAnalysis(review)

\* Review.findById of the run; the analysis and the hash are computed from
\* what it read.
EnrichFindOpenAI(r, o) ==
    /\ runs[r].pc = "find"
    /\ IF Exists(runs[r].rid)
       THEN LET review == reviews[runs[r].rid]
            IN  runs' = [runs EXCEPT ![r] =
                    [pc |-> "write", rid |-> runs[r].rid, first |-> runs[r].first,
                     aiAnalysis |-> AnalyzeSentimentOpenAI(review, o),
                     blockchainHash |-> GenerateHash(HashInput(review))]]
       ELSE runs' = [runs EXCEPT ![r] = IdleRun]
    /\ UNCHANGED <<reviews, users, nextId, reqs, started, lastResp, expected, failed>>
    /\ UNCHANGED client

NextRemote ==
    \/ \E q \in Slots, u \in Customers, body \in CreateBodies : CreateReviewFind(q, u, body)
    \/ \E q \in Slots : CreateReviewCreate(q)
    \/ \E q \in Slots : CreateReviewCount(q)
    \/ \E r \in RunSlots, o \in RemoteOutcomes : EnrichFindOpenAI(r, o)
    \/ \E r \in RunSlots : EnrichWrite(r)
    \/ \E r \in RunSlots : EnrichFail(r)

SpecRemote == Init /\ [][NextRemote]_vars

\* ============================================= the two rule-based analyzers
\* fallbackAnalysis of the backend's AIService and of the browser's, applied
\* to the same review.

\* The browser's AIService.fallbackAnalysis (src/services/aiService.ts);
\* score and fakeConfidence in tenths.
ClientFallbackAnalysis(review) ==
    LET text == review.title \o <<" ">> \o review.content
        positiveCount == Cardinality({w \in PositiveWords : w \in Range(text)})
        negativeCount == Cardinality({w \in NegativeWords : w \in Range(text)})
        positive == review.rating >= 4 \/ positiveCount > negativeCount
        negative == ~positive /\ (review.rating <= 2 \/ negativeCount > positiveCount)
        score ==
            IF positive THEN 3 + (review.rating - 3) * 2 + positiveCount * 1
            ELSE IF negative THEN (0 - 3) - (3 - review.rating) * 2 - negativeCount * 1
            ELSE (review.rating - 3) * 1
        words == Len(SelectSeq(review.content, LAMBDA w : w = " ")) + 1
    IN  [sentiment |-> IF positive THEN "positive"
                       ELSE IF negative THEN "negative" ELSE "neutral",
         score |-> Max(-10, Min(10, score)),
         isFake |-> (Length(review.content) < 20 \/ words < 10),
         fakeConfidence |-> IF Length(review.content) < 20 THEN 8 ELSE 2,
         provider |-> "fallback"]

\* The keywords a review's content holds of each list, at most.
MaxKeywords == 4

\* The word lists in the order of the source.
PositiveList ==
    <<"good", "great", "excellent", "amazing", "love", "perfect", "recommend",
      "awesome", "fantastic", "wonderful">>
NegativeList ==
    <<"bad", "terrible", "awful", "hate", "worst", "horrible", "disappointing",
      "useless", "broken", "waste">>

\* The words of a sequence, a space after each.
RECURSIVE Spaced(_)
Spaced(words) ==
    IF words = <<>> THEN <<>> ELSE <<Head(words), " ">> \o Spaced(Tail(words))

\* A content with the first p positive and the first n negative keywords.
KeywordContent(p, n) ==
    Spaced(SubSeq(PositiveList, 1, p)) \o Spaced(SubSeq(NegativeList, 1, n)) \o <<"item">>

\* A review is analysed by both implementations.
Analyze(rating, p, n) ==
    /\ LET review == [title |-> <<"fine">>, content |-> KeywordContent(p, n),
                      rating |-> rating, productName |-> <<"p">>]
       IN  heur' = [pc |-> "done", rating |-> rating,
                    positiveCount |-> p, negativeCount |-> n,
                    server |-> FallbackAnalysis(review),
                    client |-> ClientFallbackAnalysis(review)]
    /\ UNCHANGED exceptHeur

NextHeur == \E rating \in 1..5, p \in 0..MaxKeywords, n \in 0..MaxKeywords : Analyze(rating, p, n)

SpecHeur == Init /\ [][NextHeur]_vars

\* ============================================================= AuthContext
\* The browser's AuthProvider (src/contexts/AuthContext.tsx): the login and
\* register it hands out (enhancedLogin, enhancedRegister), and logout.

\* Calls of login and register.
MaxAuthCalls == 2

Emails == {"", "admin@feedback.com", "a@b.c"}
Passwords == {"", "admin123", "pw"}

\* The roles the backend gives a user it has authenticated.
ServerRoles == {"user", "admin"}

\* login(email, password) is called: apiService.login is awaited.
AuthLogin(email, password) ==
    /\ auth.pc = "idle"
    /\ auth.calls < MaxAuthCalls
    /\ auth' = [pc |-> "api", user |-> auth.user, token |-> auth.token,
                result |-> "none", calls |-> auth.calls + 1,
                email |-> email, password |-> password, isRegister |-> FALSE]
    /\ UNCHANGED exceptAuth

\* register(email, password, name) is called: apiService.register is awaited.
AuthRegister(email, password) ==
    /\ auth.pc = "idle"
    /\ auth.calls < MaxAuthCalls
    /\ auth' = [pc |-> "api", user |-> auth.user, token |-> auth.token,
                result |-> "none", calls |-> auth.calls + 1,
                email |-> email, password |-> password, isRegister |-> TRUE]
    /\ UNCHANGED exceptAuth

\* The API accepted: `response.success && response.data`, the user and the
\* token of the response are kept and the call resolves true.
AuthApiSuccess(role) ==
    /\ auth.pc = "api"
    /\ auth' = [auth EXCEPT !.pc = "idle",
                            !.user = [email |-> auth.email, role |-> role],
                            !.token = "jwt",
                            !.result = "true"]
    /\ UNCHANGED exceptAuth

\* The API refused or could not be reached: login (register) returns false
\* and fallbackAuth starts with its delay.
AuthApiFailure ==
    /\ auth.pc = "api"
    /\ auth' = [auth EXCEPT !.pc = "fallback"]
    /\ UNCHANGED exceptAuth

\* fallbackAuth after its delay.
AuthFallback ==
    /\ auth.pc = "fallback"
    /\ auth' =
        IF auth.email = "admin@feedback.com" /\ auth.password = "admin123"
        THEN [auth EXCEPT !.pc = "idle",
                          !.user = [email |-> "admin@feedback.com", role |-> "admin"],
                          !.token = "demo_admin_token",
                          !.result = "true"]
        ELSE IF auth.email # "" /\ auth.password # ""
        THEN [auth EXCEPT !.pc = "idle",
                          !.user = [email |-> auth.email, role |-> "user"],
                          !.token = "demo_user_token",
                          !.result = "true"]
        ELSE [auth EXCEPT !.pc = "idle", !.result = "true"]
    /\ UNCHANGED exceptAuth

\* logout()
AuthLogout ==
    /\ auth.user # NoUser \/ auth.token # Null
    /\ auth' = [auth EXCEPT !.user = NoUser, !.token = Null]
    /\ UNCHANGED exceptAuth

NextAuth ==
    \/ \E email \in Emails, password \in Passwords : AuthLogin(email, password)
    \/ \E email \in Emails, password \in Passwords : AuthRegister(email, password)
    \/ \E role \in ServerRoles : AuthApiSuccess(role)
    \/ AuthApiFailure
    \/ AuthFallback
    \/ AuthLogout

SpecAuth == Init /\ [][NextAuth]_vars

\* ======================================================= BlockchainService
\* The browser's BlockchainService in local simulation (isWeb3Available is
\* false) and the reviews addReview has hashed and stored with it.

\* Reviews added.
MaxStored == 2

\* generateHash of a whole review object: the digest of the JSON of all its
\* fields, the keys in sorted order.  As in GenerateHash the digest is kept
\* as the serialised fields: equal digests, equal input.
GenerateHashOfReview(review) ==
    <<"0x", review.blockchainHash, review.content, review.id, review.rating,
      review.sentiment, review.status, review.timestamp, review.title,
      review.userId>>

\* storeOnBlockchain / storeLocally: the transaction's hash is generateHash of
\* the object it is given; the transaction is appended to
\* localStorage.blockchain_transactions.
StoreOnBlockchain(transactions, reviewData) ==
    Append(transactions, [hash |-> GenerateHashOfReview(reviewData),
                          reviewId |-> reviewData.id])

\* verifyOnBlockchain without Web3: `transactions.some(tx => tx.hash === hash)`
VerifyOnBlockchain(transactions, hash) ==
    \E i \in DOMAIN transactions : transactions[i].hash = hash

\* addReview's processing of a review: analysis, generateHash of five of its
\* fields, the review object with blockchainHash, storeOnBlockchain of that
\* object; the review joins the list.
LedgerAddReview(u, rating) ==
    /\ Len(ledger.stored) < MaxStored
    /\ LET now == Len(ledger.stored) + 1
           data == [title |-> <<"fine">>, content |-> <<"terrible", " ", "item">>,
                    rating |-> rating, productName |-> <<"p">>]
           blockchainHash ==
               GenerateHash([title |-> data.title, content |-> data.content,
                             rating |-> rating, timestamp |-> ToISOString(now),
                             userId |-> u])
           newReview ==
               [id |-> now, userId |-> u, title |-> data.title,
                content |-> data.content, rating |-> rating, timestamp |-> now,
                status |-> "pending",
                sentiment |-> ClientFallbackAnalysis(data).sentiment,
                blockchainHash |-> blockchainHash]
       IN  ledger' = [ledger EXCEPT
                !.transactions = StoreOnBlockchain(@, newReview),
                !.stored = Append(@, newReview)]
    /\ UNCHANGED exceptLedger

\* The hashes verification is asked about: those of the stored reviews,
\* those of the transactions, and one of a review never stored.
KnownHashes ==
    {ledger.stored[i].blockchainHash : i \in DOMAIN ledger.stored}
        \cup {ledger.transactions[i].hash : i \in DOMAIN ledger.transactions}
        \cup {GenerateHash([title |-> <<"great">>, content |-> <<"item">>, rating |-> 5,
                            timestamp |-> ToISOString(0), userId |-> "u1"])}

\* verifyOnBlockchain(hash)
LedgerVerify(hash) ==
    /\ ledger' = [ledger EXCEPT !.verified =
            <<[hash |-> hash, result |-> VerifyOnBlockchain(ledger.transactions, hash)]>>]
    /\ UNCHANGED exceptLedger

NextLedger ==
    \/ \E u \in Customers, rating \in 1..5 : LedgerAddReview(u, rating)
    \/ \E hash \in KnownHashes : LedgerVerify(hash)

SpecLedger == Init /\ [][NextLedger]_vars

\* ============================================================== ApiService
\* The browser's ApiService (src/services/api.ts): one call of request, with
\* the fetch attempts retryRequest makes for it.

\* Calls of ApiService.request in one behaviour.
MaxCalls == 3

MAX_RETRIES == 3

\* What the server may answer, and what fetch may throw.  fetch resolves with
\* a Response whatever the HTTP status; it rejects with a TypeError when the
\* network fails and with an AbortError once the signal is aborted.
HttpStatuses == {200, 400, 404, 409, 429, 500, 503}
Response(status) == [kind |-> "response", name |-> "Response", status |-> status]
Thrown(name) == [kind |-> "throw", name |-> name, status |-> 0]
NoOutcome == [kind |-> "none", name |-> "none", status |-> 0]

\* The outcomes of one fetch; status 0 stands for an error object that has
\* no status property.
FetchOutcomes(aborted) ==
    IF aborted THEN {Thrown("AbortError")}
    ELSE {Response(st) : st \in HttpStatuses} \cup {Thrown("TypeError")}

\* ApiService.isRetryableError
IsRetryableError(error) ==
    \/ error.name = "TypeError"
    \/ (error.status >= 500 /\ error.status < 600)
    \/ error.status = 429

\* `response.ok`
Ok(status) == status >= 200 /\ status <= 299

\* The ApiResponse request builds from the outcome retryRequest ended with:
\* success, the server's error, the timeout message or the network error.
RequestResult(o) ==
    IF o.kind = "response" THEN (IF Ok(o.status) THEN "success" ELSE "error")
    ELSE IF o.name = "AbortError" THEN "timeout"
    ELSE "network"

\* ApiService.request is called: the abort timer is armed and retryRequest
\* makes its first call of fetch with retries = MAX_RETRIES.
ApiRequest ==
    /\ api.pc \in {"idle", "done"}
    /\ api.calls < MaxCalls
    /\ api' = [pc |-> "fetch", calls |-> api.calls + 1, retries |-> MAX_RETRIES,
               attempts |-> 0, aborted |-> FALSE, last |-> NoOutcome,
               result |-> "none"]
    /\ UNCHANGED exceptApi

\* The REQUEST_TIMEOUT timer fires: controller.abort().
ApiTimeout ==
    /\ api.pc \in {"fetch", "delay"}
    /\ ~api.aborted
    /\ api' = [api EXCEPT !.aborted = TRUE]
    /\ UNCHANGED exceptApi

\* One fetch of retryRequest settles.  A Response ends retryRequest and
\* request builds its result from response.ok; a rejection is retried after
\* the delay when retries > 0 and the error is retryable, and is otherwise
\* thrown to request, whose catch block builds the failure.
ApiFetch ==
    /\ api.pc = "fetch"
    /\ \E o \in FetchOutcomes(api.aborted) :
        api' = [api EXCEPT
                  !.attempts = @ + 1,
                  !.last = o,
                  !.pc = IF o.kind = "throw" /\ api.retries > 0 /\ IsRetryableError(o)
                         THEN "delay" ELSE "done",
                  !.result = IF o.kind = "throw" /\ api.retries > 0 /\ IsRetryableError(o)
                             THEN "none" ELSE RequestResult(o)]
    /\ UNCHANGED exceptApi

\* The delay is over: retryRequest(requestFn, retries - 1).
ApiDelay ==
    /\ api.pc = "delay"
    /\ api' = [api EXCEPT !.pc = "fetch", !.retries = @ - 1]
    /\ UNCHANGED exceptApi

NextApi ==
    \/ ApiRequest
    \/ ApiTimeout
    \/ ApiFetch
    \/ ApiDelay

SpecApi == Init /\ [][NextApi]_vars

\* ============================================================= DataContext
\* The DataProvider of src/contexts/DataContext.tsx: loadReviews, addReview
\* and updateReviewStatus over the tiers DatabaseService, ApiService and the
\* local review list.  One call is followed at a time; each tier's answer is
\* a step.

\* Calls of the DataProvider's functions in one behaviour.
MaxClientCalls == 3

\* The review lists the remote database or the API may return.
ServerLists == {[i \in {1} |-> "approved"], [i \in {1, 3} |-> "approved"]}

\* A fetch of the DatabaseService: response.ok, a response that is not ok,
\* or a rejection.  localStorage.setItem: done, or a thrown quota error.
FetchResults == {"ok", "notok", "throw"}
StorageResults == {"ok", "throw"}

\* The outcomes ApiService.request can end with.
FinalOutcomes == FetchOutcomes(FALSE) \cup FetchOutcomes(TRUE)

\* The shapes of the body of GET /reviews: `reviews` at the top of the body,
\* as the client reads it, or under `data`, as the backend's getReviews
\* sends it.
BodyShapes == {"flat", "nested"}

With(f, id, v) == [i \in DOMAIN f \cup {id} |-> IF i = id THEN v ELSE f[i]]

\* `prev.map(review => review.id === reviewId ? {...review, status} : review)`
SetStatus(list, id, status) ==
    IF ~list.defined THEN list
    ELSE ListOf([i \in DOMAIN list.items |-> IF i = id THEN status ELSE list.items[i]])

\* `[newReview, ...prev]`
Prepend(list, id) ==
    IF ~list.defined THEN list ELSE ListOf(With(list.items, id, "pending"))

\* A notification: type, title and what its message speaks of.
Notify(notes, type, title, about) == Append(notes, <<type, title, about>>)

\* DatabaseService.createReview
DbCreateReview(isConnected, f, st, stored, id) ==
    IF isConnected /\ f = "throw"
    THEN [success |-> FALSE, error |-> "Failed to create review", stored |-> stored]
    ELSE IF isConnected /\ f = "ok"
    THEN [success |-> TRUE, error |-> "", stored |-> stored]
    ELSE IF st = "throw"
    THEN [success |-> FALSE, error |-> "Failed to create review", stored |-> stored]
    ELSE [success |-> TRUE, error |-> "", stored |-> With(stored, id, "pending")]

\* DatabaseService.getReviews, called without filters.
DbGetReviews(isConnected, f, stored, server) ==
    IF isConnected /\ f = "throw"
    THEN [success |-> FALSE, error |-> "Failed to get reviews", data |-> stored]
    ELSE IF isConnected /\ f = "ok"
    THEN [success |-> TRUE, error |-> "", data |-> server]
    ELSE [success |-> TRUE, error |-> "", data |-> stored]

\* DatabaseService.updateReview(id, {status})
DbUpdateReview(isConnected, f, st, stored, id, status) ==
    IF isConnected /\ f = "throw"
    THEN [success |-> FALSE, error |-> "Failed to update review", stored |-> stored]
    ELSE IF isConnected /\ f = "ok"
    THEN [success |-> TRUE, error |-> "", stored |-> stored]
    ELSE IF id \notin DOMAIN stored
    THEN [success |-> FALSE, error |-> "Review not found", stored |-> stored]
    ELSE IF st = "throw"
    THEN [success |-> FALSE, error |-> "Failed to update review", stored |-> stored]
    ELSE [success |-> TRUE, error |-> "", stored |-> With(stored, id, status)]

\* History: what a tier did with the call.  The database tier rejects when
\* it answers that the review does not exist; the API tier rejects when the
\* server answers 4xx (other than 429) with its error body.
DbTier(r) ==
    IF r.success THEN "accepted"
    ELSE IF r.error = "Review not found" THEN "rejected"
    ELSE "unreachable"
ApiTier(o) ==
    IF o.kind = "response" /\ Ok(o.status) THEN "accepted"
    ELSE IF o.kind = "response" /\ o.status >= 400 /\ o.status < 500 /\ o.status # 429
    THEN "rejected"
    ELSE "unreachable"

\* A function of the DataProvider is called.
ClientCall(op, rid, status) ==
    /\ ctx.pc = "idle"
    /\ ctx.calls < MaxClientCalls
    /\ ctx' = [ctx EXCEPT !.pc = IF op = "loadReviews" THEN "load_db"
                                ELSE IF op = "addReview" THEN "add_db"
                                ELSE "status_db",
                          !.op = op, !.after = "none", !.calls = @ + 1,
                          !.before = ctx.list, !.notes = <<>>,
                          !.rid = rid, !.status = status,
                          !.clock = IF op = "addReview" THEN @ + 1 ELSE @,
                          !.dbTier = "none", !.apiTier = "none", !.served = "none"]
    /\ UNCHANGED exceptCtx

\* initializeServices: databaseService.connect() sets isConnected.
ClientConnect ==
    /\ ctx.pc = "idle"
    /\ \E c \in BOOLEAN :
        /\ c # ctx.isConnected
        /\ ctx' = [ctx EXCEPT !.isConnected = c]
    /\ UNCHANGED exceptCtx

\* loadReviews returns.  When it was called by addReview, addReview goes on
\* to its 'Review Submitted' success and returns too.
LoadReturns(c) ==
    [c EXCEPT !.pc = "idle",
              !.notes = IF c.after = "none" THEN @
                        ELSE Notify(@, "success", "Review Submitted", c.after)]

\* loadReviews: databaseService.getReviews() answers.
ClientLoadDb ==
    /\ ctx.pc = "load_db"
    /\ \E f \in FetchResults, server \in ServerLists :
        LET r == DbGetReviews(ctx.isConnected, f, ctx.stored, server)
        IN  IF r.success
            THEN ctx' = LoadReturns(
                    [ctx EXCEPT !.list = ListOf(r.data), !.served = "db",
                                !.notes = Notify(@, "info", "Reviews Loaded", "database")])
            ELSE ctx' = [ctx EXCEPT !.pc = "load_api"]
    /\ UNCHANGED exceptCtx

\* loadReviews: apiService.getReviews() answers.  With `reviews` missing from
\* the body the list is set to undefined and reading its length throws: the
\* catch block warns.  A failure of the API changes nothing and notifies no
\* one.
ClientLoadApi ==
    /\ ctx.pc = "load_api"
    /\ \E o \in FinalOutcomes, shape \in BodyShapes, server \in ServerLists :
        IF RequestResult(o) = "success"
        THEN IF shape = "flat"
             THEN ctx' = LoadReturns(
                    [ctx EXCEPT !.list = ListOf(server), !.served = "api",
                                !.notes = Notify(@, "info", "Reviews Loaded", "server")])
             ELSE ctx' = LoadReturns(
                    [ctx EXCEPT !.list = Undefined, !.served = "api",
                                !.notes = Notify(@, "warning", "Using Local Data", "cached")])
        ELSE ctx' = LoadReturns(ctx)
    /\ UNCHANGED exceptCtx

\* addReview: databaseService.createReview answers.  On success the review is
\* analysed, hashed, updated in the database and stored on the blockchain
\* (storeOnBlockchain throws when localStorage does), the list is reloaded;
\* on failure the API is tried.
ClientAddDb ==
    /\ ctx.pc = "add_db"
    /\ \E f \in FetchResults, st \in StorageResults, chain \in StorageResults :
        LET r == DbCreateReview(ctx.isConnected, f, st, ctx.stored, ctx.rid)
        IN  IF ~r.success
            THEN ctx' = [ctx EXCEPT !.pc = "add_api", !.dbTier = DbTier(r)]
            ELSE IF chain = "throw"
            THEN ctx' = [ctx EXCEPT !.pc = "add_local", !.dbTier = "accepted",
                                    !.stored = r.stored,
                                    !.notes = Notify(@, "warning", "Processing Locally", "server")]
            ELSE ctx' = [ctx EXCEPT !.pc = "load_db", !.after = "database",
                                    !.dbTier = "accepted", !.stored = r.stored]
    /\ UNCHANGED exceptCtx

\* addReview: apiService.submitReview answers.  A response that is not a
\* success is notified as 'Submission Failed' and the function goes on, out
\* of the try block, to the local processing.
ClientAddApi ==
    /\ ctx.pc = "add_api"
    /\ \E o \in FinalOutcomes :
        IF RequestResult(o) = "success"
        THEN ctx' = [ctx EXCEPT !.pc = "load_db", !.after = "server",
                                !.apiTier = "accepted"]
        ELSE ctx' = [ctx EXCEPT !.pc = "add_local", !.apiTier = ApiTier(o),
                                !.notes = Notify(@, "error", "Submission Failed", "server")]
    /\ UNCHANGED exceptCtx

\* addReview: the local processing (analysis, hash, storeOnBlockchain), the
\* new review is put at the head of the list and the success is notified.
ClientAddLocal ==
    /\ ctx.pc = "add_local"
    /\ \E chain \in StorageResults :
        LET n1 == IF chain = "ok"
                  THEN Notify(ctx.notes, "success", "Blockchain Verified", "blockchain")
                  ELSE Notify(ctx.notes, "warning", "Blockchain Warning", "blockchain")
        IN  ctx' = [ctx EXCEPT !.pc = "idle",
                               !.list = Prepend(@, ctx.rid),
                               !.notes = Notify(n1, "success", "Review Submitted", "locally")]
    /\ UNCHANGED exceptCtx

\* updateReviewStatus: databaseService.updateReview(reviewId, {status})
\* answers.
ClientStatusDb ==
    /\ ctx.pc = "status_db"
    /\ \E f \in FetchResults, st \in StorageResults :
        LET r == DbUpdateReview(ctx.isConnected, f, st, ctx.stored, ctx.rid, ctx.status)
        IN  IF r.success
            THEN ctx' = [ctx EXCEPT !.pc = "idle", !.dbTier = "accepted",
                                    !.stored = r.stored,
                                    !.list = SetStatus(@, ctx.rid, ctx.status),
                                    !.notes = Notify(@, "success", "Status Updated", "successfully")]
            ELSE ctx' = [ctx EXCEPT !.pc = "status_api", !.dbTier = DbTier(r)]
    /\ UNCHANGED exceptCtx

\* updateReviewStatus: apiService.updateReviewStatus answers.  When it is not
\* a success the function goes on to the local update.
ClientStatusApi ==
    /\ ctx.pc = "status_api"
    /\ \E o \in FinalOutcomes :
        IF RequestResult(o) = "success"
        THEN ctx' = [ctx EXCEPT !.pc = "idle", !.apiTier = "accepted",
                                !.list = SetStatus(@, ctx.rid, ctx.status),
                                !.notes = Notify(@, "success", "Status Updated", "successfully")]
        ELSE ctx' = [ctx EXCEPT !.pc = "idle", !.apiTier = ApiTier(o),
                                !.list = SetStatus(@, ctx.rid, ctx.status),
                                !.notes = Notify(@, "info", "Status Updated", "locally")]
    /\ UNCHANGED exceptCtx

NextData ==
    \/ ClientCall("loadReviews", 0, "none")
    \/ ClientCall("addReview", ctx.clock, "none")
    \/ \E rid \in {1, 3} \cup DOMAIN ctx.stored, status \in Statuses :
            ClientCall("updateReviewStatus", rid, status)
    \/ ClientConnect
    \/ ClientLoadDb
    \/ ClientLoadApi
    \/ ClientAddDb
    \/ ClientAddApi
    \/ ClientAddLocal
    \/ ClientStatusDb
    \/ ClientStatusApi

SpecData == Init /\ [][NextData]_vars

\* ======================================================== WebSocketService
\* The browser's WebSocketService (src/contexts/DataContext.tsx, class
\* WebSocketService): connect, disconnect, the socket's open and close
\* events, the reconnect timer and the heartbeat interval.

\* Calls of connect() from outside the service (DataProvider, useWebSocket).
MaxConnects == 2

\* Heartbeat intervals running at the same time (an interval whose handle was
\* overwritten is never cleared, so their number has no bound in the code).
MaxIntervals == 3

\* The config of the constructor, in milliseconds.
ReconnectInterval == 5000
MaxReconnectAttempts == 10
HeartbeatInterval == 30000

\* startHeartbeat: a new interval, whose handle replaces the one held.
StartHeartbeat(w) == [w EXCEPT !.heartbeatTimer = TRUE, !.intervals = @ + 1]

\* stopHeartbeat: clears the interval whose handle is held.
StopHeartbeat(w) ==
    IF w.heartbeatTimer
    THEN [w EXCEPT !.heartbeatTimer = FALSE, !.intervals = @ - 1]
    ELSE w

\* scheduleReconnect: the pending timer, if any, is cleared and one is set.
ScheduleReconnect(w) ==
    [w EXCEPT !.reconnectTimer = "pending", !.timerDelay = ReconnectInterval]

\* The condition of onclose for scheduling a reconnect, with one attempt more
\* allowed.
MayReconnect_OneMore(w) ==
    w.shouldReconnect /\ w.reconnectAttempts <= MaxReconnectAttempts

\* `this.shouldReconnect && this.reconnectAttempts < maxReconnectAttempts`
MayReconnect(w) ==
    w.shouldReconnect /\ w.reconnectAttempts < MaxReconnectAttempts

\* ws.onopen
OnOpen(w) == StartHeartbeat([w EXCEPT !.isConnected = TRUE, !.reconnectAttempts = 0])

\* ws.onclose
OnClose(w) ==
    LET w1 == StopHeartbeat([w EXCEPT !.isConnected = FALSE])
    IN  IF MayReconnect(w1) THEN ScheduleReconnect(w1) ELSE w1

\* `this.ws = new WebSocket(url)` of connect: the socket held until now, if
\* it is still connecting or open, lives on with its handlers.
NewSocket(w) ==
    [w EXCEPT !.cur = "connecting",
              !.detConnecting = IF w.cur = "connecting" THEN @ + 1 ELSE @,
              !.detOpen = IF w.cur = "open" THEN @ + 1 ELSE @,
              !.halfOpen = FALSE, !.wire = 0]

\* connect() is called from outside the service.
WsConnect ==
    /\ ws.connects < MaxConnects
    /\ ws' = [NewSocket(ws) EXCEPT !.connects = @ + 1]
    /\ UNCHANGED exceptWs

\* The open event of the current socket.
WsOpen ==
    /\ ws.cur = "connecting"
    /\ ws.intervals < MaxIntervals
    /\ ws' = OnOpen([ws EXCEPT !.cur = "open"])
    /\ UNCHANGED exceptWs

\* The open event of a socket the service no longer refers to.
WsOpenDetached ==
    /\ ws.detConnecting > 0
    /\ ws.intervals < MaxIntervals
    /\ ws' = OnOpen([ws EXCEPT !.detConnecting = @ - 1, !.detOpen = @ + 1])
    /\ UNCHANGED exceptWs

\* The close event of the current socket: the connection attempt failed, or
\* the open connection was lost (a half-open connection fires no event).
WsClose ==
    /\ ws.cur \in {"connecting", "open"}
    /\ ~ws.halfOpen
    /\ ws' = OnClose([ws EXCEPT !.cur = "closed", !.wire = 0])
    /\ UNCHANGED exceptWs

\* The close event of a socket the service no longer refers to.
WsCloseDetached ==
    /\ \E f \in {"detConnecting", "detOpen", "detClosing"} :
        /\ ws[f] > 0
        /\ ws' = OnClose([ws EXCEPT ![f] = @ - 1])
    /\ UNCHANGED exceptWs

\* The reconnect timer fires: reconnectAttempts++ and connect().
WsReconnect ==
    /\ ws.reconnectTimer = "pending"
    /\ ws' = NewSocket([ws EXCEPT !.reconnectTimer = "fired",
                                  !.reconnectAttempts = @ + 1])
    /\ UNCHANGED exceptWs

\* disconnect()
WsDisconnect ==
    /\ ws.cur # "none" \/ ws.shouldReconnect \/ ws.reconnectTimer # "null"
    /\ LET w1 == StopHeartbeat([ws EXCEPT !.shouldReconnect = FALSE])
       IN  ws' = [w1 EXCEPT !.reconnectTimer = "null",
                            !.cur = "none",
                            !.detClosing = IF ws.cur \in {"connecting", "open"}
                                           THEN @ + 1 ELSE @,
                            !.halfOpen = FALSE, !.wire = 0]
    /\ UNCHANGED exceptWs

\* A heartbeat interval fires: `if (this.isConnected) this.send('heartbeat')`;
\* the message leaves when the current socket is open.
WsHeartbeat ==
    /\ ws.intervals > 0
    /\ ws.isConnected
    /\ ws.cur = "open"
    /\ ws.wire = 0
    /\ ws' = [ws EXCEPT !.wire = 1]
    /\ UNCHANGED exceptWs

\* The server answers the heartbeat with heartbeat_ack (handleWebSocketMessage
\* of the backend); the client has no handler subscribed for it.
WsHeartbeatAck ==
    /\ ws.wire = 1
    /\ ~ws.halfOpen
    /\ ws' = [ws EXCEPT !.wire = 0]
    /\ UNCHANGED exceptWs

\* The peer of the open connection goes away without a close event.
WsHalfOpen ==
    /\ ws.cur = "open"
    /\ ~ws.halfOpen
    /\ ws' = [ws EXCEPT !.halfOpen = TRUE]
    /\ UNCHANGED exceptWs

\* A heartbeat sent on a half-open connection is lost.
WsHeartbeatLost ==
    /\ ws.wire = 1
    /\ ws.halfOpen
    /\ ws' = [ws EXCEPT !.wire = 0]
    /\ UNCHANGED exceptWs

NextWs ==
    \/ WsConnect
    \/ WsOpen
    \/ WsOpenDetached
    \/ WsClose
    \/ WsCloseDetached
    \/ WsReconnect
    \/ WsDisconnect
    \/ WsHeartbeat
    \/ WsHeartbeatAck
    \/ WsHalfOpen
    \/ WsHeartbeatLost

SpecWs == Init /\ [][NextWs]_vars

\* The timers of the browser fire and the network delivers or loses what is
\* sent: the reconnect timer, the heartbeat interval and the fate of a
\* heartbeat are not postponed for ever.
SpecWsLive ==
    /\ SpecWs
    /\ WF_vars(WsReconnect)
    /\ WF_vars(WsHeartbeat)
    /\ WF_vars(WsHeartbeatAck)
    /\ WF_vars(WsHeartbeatLost)

\* =================================================================== claims
\* What a step looks like from outside, for the claims below.

\* The users recorded as having marked a review helpful.
Voters(review) == {review.helpfulUsers[i] : i \in DOMAIN review.helpfulUsers}

\* This step is the arrival of a request that is answered at once.
Answered(op) ==
    /\ started' = started + 1
    /\ reqs' = reqs
    /\ lastResp'.op = op

\* This step is the arrival of a request in slot q that goes on to its
\* next database call.
Admitted(q, op) ==
    /\ started' = started + 1
    /\ reqs[q].pc = "idle"
    /\ reqs'[q].pc # "idle"
    /\ reqs'[q].op = op

\* This step takes the request in slot q from one database call to the next.
Moves(q, op, from, to) ==
    /\ reqs[q].pc = from
    /\ reqs[q].op = op
    /\ reqs'[q].pc = to

\* C1: markHelpful is idempotent per user when its calls come in sequence.
\* A call by a user who has not yet marked the review is admitted, its save
\* adds the user to helpfulUsers and raises helpful by exactly 1, and it is
\* answered 200 with the author's reputation raised by 2; a call by a user
\* who has marked the review is answered 400 and changes neither the review
\* nor any user.
C1_MarkHelpfulIdempotentInSequence ==
    [][ /\ \A q \in Slots :
            Admitted(q, "markHelpful") =>
                reqs'[q].user \notin Voters(reviews[reqs'[q].rid])
        /\ (Answered("markHelpful") /\ lastResp'.rid \in DOMAIN reviews) =>
                /\ lastResp'.code = 400
                /\ lastResp'.user \in Voters(reviews[lastResp'.rid])
                /\ reviews' = reviews
                /\ users' = users
        /\ \A q \in Slots :
            Moves(q, "markHelpful", "save", "reputation") =>
                LET rid == reqs[q].rid
                IN  /\ reviews'[rid].helpful = reviews[rid].helpful + 1
                    /\ reviews'[rid].helpfulUsers =
                           Append(reviews[rid].helpfulUsers, reqs[q].user)
        /\ \A q \in Slots :
            Moves(q, "markHelpful", "reputation", "idle") =>
                /\ lastResp'.code = 200
                /\ users' = [users EXCEPT ![reqs[q].doc.user].reputation = @ + 2]
                /\ reviews' = reviews
        /\ \A q \in Slots :
            (reqs[q].pc = "save" /\ reqs[q].op = "markHelpful") =>
                reqs'[q].pc \in {"save", "reputation"}
      ]_vars

\* A second call by the same user has been answered 400 after the first one
\* raised helpful to 1.
C1_Witness ==
    /\ lastResp.op = "markHelpful"
    /\ lastResp.code = 400
    /\ lastResp.rid \in DOMAIN reviews
    /\ reviews[lastResp.rid].helpful = 1
    /\ reviews[lastResp.rid].helpfulUsers = <<lastResp.user>>
    /\ users[reviews[lastResp.rid].user].reputation = InitialReputation + 2

\* C2: under any interleaving of markHelpful requests, helpful is the number
\* of distinct users in helpfulUsers, no user is in helpfulUsers twice, and a
\* user whose vote was answered 200 is in helpfulUsers.
C2_HelpfulEqualsVoters ==
    /\ \A rid \in DOMAIN reviews :
        /\ reviews[rid].helpful = Cardinality(Voters(reviews[rid]))
        /\ Len(reviews[rid].helpfulUsers) = Cardinality(Voters(reviews[rid]))
    /\ (lastResp.op = "markHelpful" /\ lastResp.code = 200
            /\ lastResp.rid \in DOMAIN reviews) =>
        lastResp.user \in Voters(reviews[lastResp.rid])

\* C3: there is at most one review per (author, productName) pair.
C3_OneReviewPerAuthorAndProduct ==
    \A i \in DOMAIN reviews : \A j \in DOMAIN reviews :
        (i # j /\ reviews[i].user = reviews[j].user) =>
            reviews[i].productName # reviews[j].productName

\* The user has a review for the product.
HasReviewed(u, name) ==
    \E i \in DOMAIN reviews : reviews[i].user = u /\ reviews[i].productName = name

\* C4: a createReview by a user who has a review for the same trimmed product
\* name is never admitted: it is answered 400 in the step it arrives, which
\* creates no review, starts no enrichment and leaves every reviewCount as it
\* was.
C4_DuplicateCreateRejected ==
    [][ /\ \A q \in Slots :
            Admitted(q, "createReview") =>
                ~HasReviewed(reqs'[q].user, Trim(reqs'[q].arg))
        /\ (Answered("createReview")
                /\ HasReviewed(lastResp'.user, Trim(lastResp'.arg))) =>
            /\ lastResp'.code = 400
            /\ reviews' = reviews
            /\ nextId' = nextId
            /\ runs' = runs
            /\ users' = users
      ]_vars

\* A second submission, with the name untrimmed, has been answered 400 while
\* the user's only review of the product stands.
C4_Witness ==
    /\ lastResp.op = "createReview"
    /\ lastResp.code = 400
    /\ lastResp.arg = <<" ", "p">>
    /\ Cardinality({i \in DOMAIN reviews :
            reviews[i].user = lastResp.user /\ reviews[i].productName = <<"p">>}) = 1
    /\ users[lastResp.user].reviewCount = 1

\* C5: at rest, every user's reputation is the initial one plus 10 per
\* transition of a review of theirs into approved, minus 5 per transition
\* into rejected, plus 2 per helpful vote saved.
C5_ReputationFollowsTransitions ==
    AllIdle => \A u \in UserIds : users[u].reputation = expected[u]

\* No enrichment run for the review is in flight and none of them threw.
EnrichmentSettled(rid) ==
    /\ \A r \in RunSlots : runs[r].pc # "idle" => runs[r].rid # rid
    /\ rid \notin failed

\* C6: once the enrichment runs started for a review have completed, its
\* blockchainHash is the hash of its current title, content, rating,
\* creation time and author.
C6_HashMatchesContentWhenSettled ==
    \A rid \in DOMAIN reviews :
        EnrichmentSettled(rid) =>
            reviews[rid].blockchainHash =
                <<"0x", reviews[rid].content, reviews[rid].rating,
                  <<"iso", reviews[rid].createdAt>>, reviews[rid].title,
                  reviews[rid].user>>

\* C7: createReview answers without waiting for the enrichment.  Every 201
\* carries a review with status pending, sentiment neutral, sentimentScore 0,
\* isFake false and an empty blockchainHash; a request that has created its
\* review can go on to its 201 in every state, whatever the enrichment run is
\* doing; and a throwing enrichment run removes or changes no review, answers
\* nothing and stops no request.
C7_CreateAnswersBeforeEnrichment ==
    /\ [](/\ (lastResp.op = "createReview" /\ lastResp.code = 201) =>
                /\ lastResp.doc.status = "pending"
                /\ lastResp.doc.sentiment = "neutral"
                /\ lastResp.doc.sentimentScore = 0
                /\ lastResp.doc.isFake = FALSE
                /\ lastResp.doc.blockchainHash = <<>>
          /\ \A q \in Slots :
                (reqs[q].pc = "count" /\ reqs[q].op = "createReview") =>
                    ENABLED CreateReviewCount(q))
    /\ [][ failed' # failed =>
                /\ reviews' = reviews
                /\ lastResp' = lastResp
                /\ reqs' = reqs
         ]_vars

\* A 201 with the default fields was sent for a review whose enrichment run
\* threw; the review is still there.
C7_Witness ==
    /\ lastResp.op = "createReview"
    /\ lastResp.code = 201
    /\ lastResp.rid \in failed
    /\ lastResp.rid \in DOMAIN reviews
    /\ lastResp.doc.blockchainHash = <<>>

\* C8: a review is pending for as long as the enrichment run started by its
\* creation has not written its results.
C8_PendingUntilFirstEnrichment ==
    \A r \in RunSlots :
        (runs[r].pc # "idle" /\ runs[r].first /\ runs[r].rid \in DOMAIN reviews) =>
            reviews[runs[r].rid].status = "pending"

\* C8, as the code has it: a review is created pending, and its status
\* changes only in the save of an updateReviewStatus (to approved or
\* rejected, also while the first enrichment run has not written yet) or of
\* an updateReview (back to pending); the enrichment never changes it.
C8_StatusChangesOnlyByModeration ==
    [][ /\ \A rid \in DOMAIN reviews' \ DOMAIN reviews :
                reviews'[rid].status = "pending"
        /\ \A rid \in DOMAIN reviews \cap DOMAIN reviews' :
                reviews'[rid].status # reviews[rid].status =>
                    \E q \in Slots :
                        /\ reqs[q].pc = "save"
                        /\ reqs[q].rid = rid
                        /\ reqs'[q].pc # "save"
                        /\ IF reviews'[rid].status = "pending"
                           THEN reqs[q].op = "updateReview"
                           ELSE /\ reqs[q].op = "updateReviewStatus"
                                /\ reviews'[rid].status = reqs[q].status
      ]_vars

\* An admin's updateReviewStatus has approved a review whose first enrichment
\* run has not written yet.
C8_Witness ==
    \E r \in RunSlots :
        /\ runs[r].pc # "idle"
        /\ runs[r].first
        /\ runs[r].rid \in DOMAIN reviews
        /\ reviews[runs[r].rid].status = "approved"
        /\ reviews[runs[r].rid].blockchainHash = <<>>
        /\ lastResp.op = "updateReviewStatus"
        /\ lastResp.code = 200
        /\ lastResp.rid = runs[r].rid

\* The title, content or rating of the review changes in this step.
ContentEdited(rid) ==
    \/ reviews'[rid].title # reviews[rid].title
    \/ reviews'[rid].content # reviews[rid].content
    \/ reviews'[rid].rating # reviews[rid].rating

\* C9: the title, content and rating of a review that is approved or
\* rejected change only by the save of an admin's updateReview.
C9_ModeratedContentFrozenForAuthors ==
    [][ \A rid \in DOMAIN reviews \cap DOMAIN reviews' :
            (reviews[rid].status \in {"approved", "rejected"} /\ ContentEdited(rid)) =>
                \E q \in Slots :
                    /\ Moves(q, "updateReview", "save", "idle")
                    /\ reqs[q].rid = rid
                    /\ reqs[q].user \in Admins
      ]_vars

\* C10: a successful updateReview that supplied a title, content or rating
\* leaves the review pending with moderatedBy and moderatedAt null and has
\* started a new enrichment run for it.
C10_EditResetsToPending ==
    [][ \A q \in Slots :
            (Moves(q, "updateReview", "save", "idle") /\ reqs[q].changed
                /\ lastResp'.code = 200) =>
                LET rid == reqs[q].rid
                IN  /\ rid \in DOMAIN reviews'
                    /\ reviews'[rid].status = "pending"
                    /\ reviews'[rid].moderatedBy = "null"
                    /\ reviews'[rid].moderatedAt = "null"
                    /\ \E r \in RunSlots :
                        /\ runs[r].pc = "idle"
                        /\ runs'[r].pc = "find"
                        /\ runs'[r].rid = rid
      ]_vars

\* The fields the enrichment write sets, and those updateReviewStatus sets.
EnrichmentFields ==
    {"sentiment", "sentimentScore", "isFake", "fakeConfidence", "aiProvider",
     "blockchainHash", "blockchainVerified"}
ModerationFields == {"status", "moderatedBy", "moderatedAt"}

Authored(u) == {i \in DOMAIN reviews : reviews[i].user = u}

\* C20: with every request answered, each user's reviewCount is the number of existing reviews
\* the user authored, and it is never negative.
C20_ReviewCountMatchesReviews ==
    AllIdle =>
        \A u \in UserIds :
            /\ users[u].reviewCount >= 0
            /\ users[u].reviewCount = Cardinality(Authored(u))

\* C12: a call of ApiService.request makes at most 3 fetch attempts in
\* total, and when its last attempt fails the call ends with a failure.
C12_AtMostThreeAttempts ==
    /\ api.pc # "idle" => api.attempts <= 3
    /\ (api.pc = "done" /\ api.last.kind = "throw") => api.result \in {"timeout", "network"}

\* The outcome is one the retry policy names as retryable: a thrown network
\* exception, a 5xx response or a 429 response.
RetryableOutcome(o) ==
    \/ (o.kind = "throw" /\ o.name = "TypeError")
    \/ (o.kind = "response" /\ o.status >= 500 /\ o.status < 600)
    \/ (o.kind = "response" /\ o.status = 429)

\* C13: an attempt is retried exactly when it fails with a retryable error:
\* after a thrown network exception, a 5xx or a 429 the call goes on to the
\* delay and the next attempt while retries remain, and after any other
\* outcome it ends.
C13_RetriesExactlyRetryable ==
    [][ (api.pc = "fetch" /\ api'.attempts = api.attempts + 1) =>
            (api'.pc = "delay" <=> (RetryableOutcome(api'.last) /\ api.retries > 0))
      ]_vars

\* A notification of the type and title was emitted in the current call.
Notified(type, title) ==
    \E i \in DOMAIN ctx.notes : ctx.notes[i][1] = type /\ ctx.notes[i][2] = title

\* C14: when the API tier answers addReview with a well-formed validation or
\* conflict error, addReview surfaces the error and does not go on to the
\* local processing: it ends with the review list as it was and without a
\* 'Review Submitted' success.
C14_ApiRejectionIsSurfaced ==
    /\ ctx.pc = "add_local" => ctx.apiTier # "rejected"
    /\ (ctx.pc = "idle" /\ ctx.op = "addReview" /\ ctx.apiTier = "rejected") =>
            /\ Notified("error", "Submission Failed")
            /\ ctx.list = ctx.before
            /\ ~Notified("success", "Review Submitted")

\* C15: updateReviewStatus changes the status in the local list and notifies
\* 'Status Updated' only if a tier accepted the change or every tier was
\* unreachable: when a reachable tier rejected it and none accepted it, the
\* list is as it was and no 'Status Updated' was notified.
C15_RejectedStatusChangeNotApplied ==
    (/\ ctx.pc = "idle"
     /\ ctx.op = "updateReviewStatus"
     /\ "accepted" \notin {ctx.dbTier, ctx.apiTier}
     /\ "rejected" \in {ctx.dbTier, ctx.apiTier}) =>
        /\ ctx.list = ctx.before
        /\ \A type \in {"success", "info"} : ~Notified(type, "Status Updated")

\* C16: in loadReviews the API tier is tried only after the database tier
\* has failed, and a loadReviews that returns without the database tier
\* having served the reviews has notified degraded service: the API's
\* 'Reviews Loaded ... from server' or the 'Using Local Data' warning.
C16_DegradedServiceNotified ==
    [][ /\ (ctx'.pc = "load_api" /\ ctx.pc # "load_api") => ctx.pc = "load_db"
        /\ (ctx.pc \in {"load_db", "load_api"} /\ ctx'.pc = "idle"
                /\ ctx'.served # "db") =>
            \E i \in DOMAIN ctx'.notes :
                \/ ctx'.notes[i] = <<"info", "Reviews Loaded", "server">>
                \/ ctx'.notes[i] = <<"warning", "Using Local Data", "cached">>
      ]_vars

\* The sockets the service created that have not fired their close event.
LiveSockets(w) ==
    (IF w.cur \in {"connecting", "open"} THEN 1 ELSE 0)
        + w.detConnecting + w.detOpen + w.detClosing

\* C17: as long as disconnect() has not been called, every loss of a
\* connection (a close event) with fewer than 10 attempts made schedules one
\* reconnect timer of 5 s, and with 10 attempts made schedules none; a timer
\* that fires makes the next attempt and leaves no timer pending; the
\* attempts made since the last open never exceed 10; and an open event
\* resets the count to 0.
C17_ReconnectBoundedFixedInterval ==
    /\ [](ws.shouldReconnect =>
            /\ ws.reconnectAttempts <= 10
            /\ ws.reconnectTimer = "pending" => ws.timerDelay = 5000)
    /\ [][ ws.shouldReconnect =>
            /\ LiveSockets(ws') < LiveSockets(ws) =>
                    /\ ~ws'.isConnected
                    /\ ws.reconnectAttempts < 10 => ws'.reconnectTimer = "pending"
                    /\ ws.reconnectAttempts >= 10 => ws'.reconnectTimer # "pending"
            /\ ws'.reconnectAttempts > ws.reconnectAttempts =>
                    /\ ws.reconnectTimer = "pending"
                    /\ ws'.reconnectTimer = "fired"
                    /\ ws'.reconnectAttempts = ws.reconnectAttempts + 1
                    /\ ws'.cur = "connecting"
            /\ ws'.intervals > ws.intervals => ws'.reconnectAttempts = 0
         ]_vars

\* The tenth reconnect attempt has failed and the client has stopped trying:
\* no timer is pending and no socket is left.
C17_Witness ==
    /\ ws.shouldReconnect
    /\ ws.reconnectAttempts = 10
    /\ ws.cur = "closed"
    /\ LiveSockets(ws) = 0
    /\ ws.reconnectTimer = "fired"
    /\ ~ws.isConnected

\* C18: when the peer of the open connection has gone without a close event
\* (no heartbeat_ack will arrive), the client eventually marks the connection
\* as disconnected, unless the application replaces or drops the socket
\* first.
C18_HalfOpenDetected ==
    (ws.halfOpen /\ ws.shouldReconnect) ~> (~ws.isConnected \/ ~ws.halfOpen)

\* C19: a caller who is not an admin never receives a review that is not
\* approved.  Every review in a getReviews response to such a caller is
\* approved, whatever status was asked for; the review of a getReview 200 is
\* approved; and a getReview for a review that is not approved is answered
\* 404 in the step it arrives, which changes no review (its views stay).
C19_NonAdminSeesApprovedOnly ==
    /\ []((lastResp.code = 200 /\ Role(lastResp.user) # "admin") =>
            /\ lastResp.op = "getReview" => lastResp.doc.status = "approved"
            /\ lastResp.op = "getReviews" =>
                    \A i \in DOMAIN lastResp.doc.reviews :
                        lastResp.doc.reviews[i].status = "approved")
    /\ [][ /\ \A q \in Slots :
                (Admitted(q, "getReview") /\ Role(reqs'[q].user) # "admin") =>
                    reviews[reqs'[q].rid].status = "approved"
           /\ (Answered("getReview") /\ lastResp'.rid \in DOMAIN reviews
                    /\ Role(lastResp'.user) # "admin"
                    /\ reviews[lastResp'.rid].status # "approved") =>
                /\ lastResp'.code = 404
                /\ reviews' = reviews
         ]_vars

\* A customer asked for a rejected review and got 404; the review's views
\* are still 0.
C19_Witness ==
    /\ lastResp.op = "getReview"
    /\ lastResp.code = 404
    /\ lastResp.user \in Customers
    /\ lastResp.rid \in DOMAIN reviews
    /\ reviews[lastResp.rid].status = "rejected"
    /\ reviews[lastResp.rid].views = 0

\* disconnect() has been called and connect() has not been called since:
\* the service refers to no socket and reconnection is switched off.
Disconnected(w) == w.cur = "none" /\ ~w.shouldReconnect

\* C26: after disconnect(), and until connect() is called again, no reconnect
\* timer is pending, none is set and no attempt is made whatever close events
\* arrive, no socket is created, and no heartbeat interval is running.
C26_DisconnectStopsReconnectAndHeartbeat ==
    /\ [](Disconnected(ws) =>
            /\ ws.reconnectTimer = "null"
            /\ ~ws.heartbeatTimer
            /\ ws.intervals = 0)
    /\ [][ (Disconnected(ws) /\ ws'.connects = ws.connects) =>
            /\ Disconnected(ws')
            /\ ws'.reconnectAttempts <= ws.reconnectAttempts
            /\ LiveSockets(ws') <= LiveSockets(ws)
         ]_vars

\* C27: the loss of an open connection with fewer than 10 attempts made
\* schedules a reconnect, also when disconnect() was called at some time
\* before the connect() that opened it.
C27_ConnectReenablesReconnect ==
    [][ (ws.cur = "open" /\ ws'.cur = "closed"
            /\ ws.reconnectAttempts < MaxReconnectAttempts) =>
            ws'.reconnectTimer = "pending"
      ]_vars

\* C28: at most one heartbeat interval is running, none while isConnected is
\* false, and isConnected is true only while the current socket is open.
C28_OneHeartbeatWhileConnected ==
    /\ ws.intervals <= 1
    /\ ~ws.isConnected => ws.intervals = 0
    /\ ws.isConnected => ws.cur = "open"

\* The users who have an entry in reportedBy.
Reporters(review) == {review.reportedBy[i].user : i \in DOMAIN review.reportedBy}

\* C21: when no reportReview is being handled, reportCount of every review
\* is the number of entries of reportedBy and no user has two entries; and a
\* report by a user who has an entry already is answered 400 and changes
\* nothing.
C21_ReportCountEqualsReporters ==
    /\ [](AllIdle =>
            \A i \in DOMAIN reviews :
                /\ reviews[i].reportCount = Len(reviews[i].reportedBy)
                /\ Cardinality(Reporters(reviews[i])) = Len(reviews[i].reportedBy))
    /\ [][ (Answered("reportReview") /\ lastResp'.rid \in DOMAIN reviews
                /\ lastResp'.user \in Reporters(reviews[lastResp'.rid])) =>
                /\ lastResp'.code = 400
                /\ reviews' = reviews
         ]_vars

\* min(limit, total - (page - 1) * limit), and 0 when that is negative.
PageSize(page, limit, total) ==
    LET left == total - (page - 1) * limit
        m == IF limit < left THEN limit ELSE left
    IN  IF m < 0 THEN 0 ELSE m

\* C22: for every page and limit, getReviews answers 200 with exactly
\* min(limit, total - (page - 1) * limit) reviews, or none when that number
\* is negative, where total is the number of reviews that match the filter.
C22_PageSize ==
    lastResp.op = "getReviews" =>
        /\ lastResp.code = 200
        /\ Len(lastResp.doc.reviews) =
                PageSize(lastResp.doc.page, lastResp.doc.limit, lastResp.doc.total)

\* This step sends the response of the createReview in slot q.
Responds(q, op) ==
    /\ reqs[q].pc # "idle"
    /\ reqs[q].op = op
    /\ reqs'[q].pc = "idle"

\* C25: a createReview answered 400 or 500 has stored no review and has not
\* changed the author's reviewCount; one answered 201 has stored exactly one
\* review and raised the author's reviewCount by exactly 1.
C25_CreateReviewAllOrNothing ==
    [][ /\ Answered("createReview") =>
            /\ lastResp'.code \in {400, 500}
            /\ reviews' = reviews
            /\ users' = users
        /\ \A q \in Slots :
            /\ Moves(q, "createReview", "create", "count") =>
                    /\ Cardinality(DOMAIN reviews') = Cardinality(DOMAIN reviews) + 1
                    /\ users' = users
            /\ (Responds(q, "createReview") /\ lastResp'.code \in {400, 500}) =>
                    /\ reqs[q].rid = 0
                    /\ reviews' = reviews
                    /\ users' = users
            /\ (Responds(q, "createReview") /\ lastResp'.code = 201) =>
                    /\ reqs[q].rid # 0
                    /\ reviews' = reviews
                    /\ users' = [users EXCEPT ![reqs[q].user].reviewCount = @ + 1]
      ]_vars

\* C23: every stored sentiment is one of the three labels, every stored
\* sentimentScore lies in [-1, 1] (in tenths), and a result of the remote
\* analyzer is stored only with a fakeConfidence in [0, 1].
C23_RemoteResultHasTheShape ==
    \A i \in DOMAIN reviews :
        /\ reviews[i].sentiment \in {"positive", "negative", "neutral"}
        /\ reviews[i].sentimentScore \in -10..10
        /\ reviews[i].aiProvider = "openai" => reviews[i].fakeConfidence \in 0..10

\* The label and the score (in tenths) of the ordered rule.
RuleLabel(rating, p, n) ==
    IF rating >= 4 \/ p > n THEN "positive"
    ELSE IF rating <= 2 \/ n > p THEN "negative"
    ELSE "neutral"

RuleScore(rating, p, n) ==
    LET raw == CASE RuleLabel(rating, p, n) = "positive" -> 3 + (rating - 3) * 2 + p
                 [] RuleLabel(rating, p, n) = "negative" -> (0 - 3) - (3 - rating) * 2 - n
                 [] OTHER -> rating - 3
    IN  IF raw > 10 THEN 10 ELSE IF raw < -10 THEN -10 ELSE raw

\* C24: for every rating in 1..5 and every pair of keyword counts, the
\* backend's analyzer gives the label and the clamped score of the ordered
\* rule, a rating of 1 or 2 with more positive than negative keywords is
\* labelled positive, and the browser's analyzer gives the same result.
C24_HeuristicOrderedRule ==
    heur.pc = "done" =>
        /\ heur.server.sentiment = RuleLabel(heur.rating, heur.positiveCount, heur.negativeCount)
        /\ heur.server.score = RuleScore(heur.rating, heur.positiveCount, heur.negativeCount)
        /\ heur.server.score \in -10..10
        /\ (heur.rating <= 2 /\ heur.positiveCount > heur.negativeCount) =>
                heur.server.sentiment = "positive"
        /\ heur.client = heur.server

\* A review rated 1 with two positive keywords and one negative: labelled
\* positive by both analyzers, with score 0.3 - 0.4 + 0.2.
C24_Witness ==
    /\ heur.pc = "done"
    /\ heur.rating = 1
    /\ heur.positiveCount = 2
    /\ heur.negativeCount = 1
    /\ heur.server.sentiment = "positive"
    /\ heur.client.sentiment = "positive"
    /\ heur.server.score = 1

\* C29: when a call of login or register resolves true, the context holds
\* the user this call has set and a token is stored; and a user set by the
\* demo fallback is an admin only for admin@feedback.com / admin123.
C29_TrueMeansSignedIn ==
    [][ (auth.pc # "idle" /\ auth'.pc = "idle" /\ auth'.result = "true") =>
            /\ auth'.user # NoUser
            /\ auth'.user.email = auth.email
            /\ auth'.token # Null
            /\ (auth.pc = "fallback" /\ auth'.user.role = "admin") =>
                    (auth.email = "admin@feedback.com" /\ auth.password = "admin123")
      ]_vars

\* The blockchainHash of the reviews added, and the hashes of their
\* transactions.
StoredHashes(l) == {l.stored[i].blockchainHash : i \in DOMAIN l.stored}
TransactionHashes(l) == {l.transactions[i].hash : i \in DOMAIN l.transactions}

\* C30: verifyOnBlockchain answers true for the blockchainHash of every
\* review addReview has stored, and false for a hash that is neither the
\* blockchainHash nor the transaction hash of a stored review.
C30_VerifyRoundTrip ==
    [][ ledger'.verified # ledger.verified =>
            LET v == ledger'.verified[1]
            IN  /\ v.hash \in StoredHashes(ledger) => v.result
                /\ v.hash \notin StoredHashes(ledger) \cup TransactionHashes(ledger)
                        => ~v.result
      ]_vars
====
